---- MODULE Spec2Model ----
(***************************************************************************)
(* A state-machine model of the nrfx GPIOTE driver                         *)
(* (nrfx/drivers/src/nrfx_gpiote.c): the per-pin flag table, the handler   *)
(* registry with its slot pool, the configuration API and the port-event   *)
(* resolution loop in both the LATCH and the non-LATCH build.              *)
(***************************************************************************)
EXTENDS Integers, FiniteSets, Sequences, TLC

(***************************************************************************)
(* Sizes.  MAX_PIN_NUMBER, GPIOTE_CH_NUM and the number of handler slots   *)
(* are the program's, scaled down; the callback and context domains bound  *)
(* the caller's inputs, MaxChanges the level changes of one pin where they *)
(* are counted.                                                            *)
(***************************************************************************)
MAX_PIN_NUMBER == 2
GPIOTE_CH_NUM == 2
NRFX_GPIOTE_CONFIG_NUM_OF_EVT_HANDLERS == 2
NumCallbacks == 2
NumContexts == 2
MaxChanges == 2

Pins == 0 .. (MAX_PIN_NUMBER - 1)
Channels == 0 .. (GPIOTE_CH_NUM - 1)
HandlerIds == 0 .. (NRFX_GPIOTE_CONFIG_NUM_OF_EVT_HANDLERS - 1)
Callbacks == 1 .. NumCallbacks
Contexts == 0 .. (NumContexts - 1)

(* nrfx_gpiote_trigger_t; 1..3 coincide with the GPIOTE polarity values.   *)
NRFX_GPIOTE_TRIGGER_NONE == 0
NRFX_GPIOTE_TRIGGER_LOTOHI == 1
NRFX_GPIOTE_TRIGGER_HITOLO == 2
NRFX_GPIOTE_TRIGGER_TOGGLE == 3
NRFX_GPIOTE_TRIGGER_LOW == 4
NRFX_GPIOTE_TRIGGER_HIGH == 5
Triggers == NRFX_GPIOTE_TRIGGER_NONE .. NRFX_GPIOTE_TRIGGER_HIGH

NRF_GPIOTE_POLARITY_NONE == 0

(* A null function pointer, a null channel pointer, "no handler".          *)
NULL == 0
NO_CHANNEL == -1
PIN_FLAG_NO_HANDLER == -1

(* One 16-bit pin_flags word, field by field (skip_config is never written *)
(* by this file and is left out).                                          *)
PIN_FLAG_NOT_USED ==
    [in_use |-> FALSE, output |-> FALSE, trigger |-> NRFX_GPIOTE_TRIGGER_NONE,
     te_used |-> FALSE, te_id |-> 0, handler_present |-> FALSE, handler_id |-> 0]

NoHandlerCfg == [handler |-> NULL, p_context |-> 0]

VARIABLES
    m_cb,     \* the driver control block: handlers, pin_flags,
              \* available_evt_handlers, available_channels_mask, port_pins, state
    hw,       \* the GPIO/GPIOTE peripheral: level, sense, latch, port_event
    irq,      \* the interrupt handler's position and locals
    call,     \* history: the API call completed last and what it returned
    reg,      \* history: per pin, the (callback, context) it registered last
    ev,       \* history: the step of the interrupt path or of the pins taken last
    obs       \* history: per pin, what a claim's observer has recorded

vars == <<m_cb, hw, irq, call, reg, ev, obs>>

(***************************************************************************)
(* The flag allocator (helpers/nrfx_flag32_allocator.h).  A mask is the    *)
(* set of free indices.                                                    *)
(***************************************************************************)
nrfx_flag32_alloc(mask) ==
    IF mask = {} THEN {[err |-> "NRFX_ERROR_NO_MEM", id |-> 0, mask |-> mask]}
    ELSE {[err |-> "NRFX_SUCCESS", id |-> i, mask |-> mask \ {i}] : i \in mask}

nrfx_flag32_free(mask, id) ==
    IF id \in mask THEN [err |-> "NRFX_ERROR_INVALID_PARAM", mask |-> mask]
    ELSE [err |-> "NRFX_SUCCESS", mask |-> mask \cup {id}]

(***************************************************************************)
(* The peripheral.  A pin's DETECT is high while its level equals its      *)
(* armed sense; the PORT event is set on a rising edge of the OR of all    *)
(* DETECTs; a LATCH bit is set while its pin's DETECT is high and stays    *)
(* set until it is cleared with the DETECT low.                            *)
(***************************************************************************)
PinDetect(h, pin) ==
    \/ h.sense[pin] = "HIGH" /\ h.level[pin]
    \/ h.sense[pin] = "LOW" /\ ~h.level[pin]

Detect(h) == \E pin \in Pins : PinDetect(h, pin)

\* the channels in event mode whose pin makes the edge of their polarity
\* when the levels become those of h2
TeEdges(h, h2) ==
    {c \in Channels :
        /\ h2.te_model /\ h2.te[c].mode = "event"
        /\ LET p == h2.te[c].pin
               pol == h2.te[c].polarity
           IN  \/ /\ pol \in {NRFX_GPIOTE_TRIGGER_LOTOHI, NRFX_GPIOTE_TRIGGER_TOGGLE}
                  /\ ~h.level[p] /\ h2.level[p]
               \/ /\ pol \in {NRFX_GPIOTE_TRIGGER_HITOLO, NRFX_GPIOTE_TRIGGER_TOGGLE}
                  /\ h.level[p] /\ ~h2.level[p]}

\* what the peripheral does when the pins' levels or senses become those of h2
HwSettle(h, h2) ==
    [h2 EXCEPT !.port_event = h.port_event \/ (~Detect(h) /\ Detect(h2)),
               !.latch = [p \in Pins |->
                            h.latch_present /\ (h.latch[p] \/ PinDetect(h2, p))],
               !.in_event = h.in_event \cup TeEdges(h, h2)]

nrfy_gpio_cfg_sense_set(h, pin, sense) ==
    HwSettle(h, [h EXCEPT !.sense[pin] = sense])

nrfy_gpio_pin_latch_clear(h, pin) ==
    [h EXCEPT !.latch[pin] = PinDetect(h, pin)]

\* nrfy_gpio_reconfigure: of PIN_CNF, the INPUT field (buffer connected or not)
nrfy_gpio_reconfigure(h, pin, input_connect) ==
    [h EXCEPT !.input_connect[pin] = input_connect]

(***************************************************************************)
(* The GPIOTE channels: CONFIG[ch] (mode, pin, polarity), EVENTS_IN[ch]    *)
(* and the IN bits of INTEN.  They are followed where h.te_model is set,   *)
(* in the specifications that dispatch channel events.                     *)
(***************************************************************************)
TeDefault == [mode |-> "disabled", pin |-> 0, polarity |-> NRF_GPIOTE_POLARITY_NONE]

nrfy_gpiote_te_default(h, ch) ==
    IF h.te_model THEN [h EXCEPT !.te[ch] = TeDefault] ELSE h

nrfy_gpiote_event_configure(h, ch, pin, polarity) ==
    IF h.te_model THEN [h EXCEPT !.te[ch].pin = pin, !.te[ch].polarity = polarity] ELSE h

nrfy_gpiote_task_configure(h, ch, pin, polarity) ==
    IF h.te_model THEN [h EXCEPT !.te[ch].pin = pin, !.te[ch].polarity = polarity] ELSE h

nrfy_gpiote_event_enable(h, ch) ==
    IF h.te_model THEN [h EXCEPT !.te[ch].mode = "event"] ELSE h

nrfy_gpiote_event_disable(h, ch) ==
    IF h.te_model THEN [h EXCEPT !.te[ch].mode = "disabled"] ELSE h

nrfy_gpiote_event_clear(h, ch) == [h EXCEPT !.in_event = @ \ {ch}]

nrfy_gpiote_int_enable(h, ch) ==
    IF h.te_model THEN [h EXCEPT !.inten = @ \cup {ch}] ELSE h

nrfy_gpiote_int_disable(h, ch) == [h EXCEPT !.inten = @ \ {ch}]

(***************************************************************************)
(* Pin-flag predicates.                                                    *)
(***************************************************************************)
get_pin_idx(pin) == pin

pin_in_use(cb, pin) == cb.pin_flags[get_pin_idx(pin)].in_use

pin_in_use_by_te(cb, pin) == cb.pin_flags[get_pin_idx(pin)].te_used

pin_has_trigger(cb, pin) ==
    cb.pin_flags[get_pin_idx(pin)].trigger # NRFX_GPIOTE_TRIGGER_NONE

pin_is_output(cb, pin) == cb.pin_flags[get_pin_idx(pin)].output

pin_is_task_output(cb, pin) == pin_is_output(cb, pin) /\ pin_in_use_by_te(cb, pin)

pin_is_input(cb, pin) == ~pin_is_output(cb, pin)

pin_te_get(cb, pin) == cb.pin_flags[get_pin_idx(pin)].te_id

is_level(trigger) == trigger >= NRFX_GPIOTE_TRIGGER_LOW

PIN_GET_HANDLER_ID(flags) ==
    IF flags.handler_present THEN flags.handler_id ELSE PIN_FLAG_NO_HANDLER

(***************************************************************************)
(* Handler registry.  The operators below take and return a machine state  *)
(* s = [cb, hw, assert_failed]: the control block, the peripheral, and     *)
(* whether an NRFX_ASSERT of the call has failed so far.                   *)
(***************************************************************************)
handler_in_use(cb, handler_id) ==
    \E i \in Pins : PIN_GET_HANDLER_ID(cb.pin_flags[i]) = handler_id

release_handler(s, pin) ==
    LET idx == get_pin_idx(pin)
        handler_id == PIN_GET_HANDLER_ID(s.cb.pin_flags[idx])
        cb1 == [s.cb EXCEPT !.pin_flags[idx].handler_present = FALSE,
                            !.pin_flags[idx].handler_id = 0]
        fr == nrfx_flag32_free(cb1.available_evt_handlers, handler_id)
    IN  IF handler_id = PIN_FLAG_NO_HANDLER THEN s
        ELSE IF handler_in_use(cb1, handler_id) THEN [s EXCEPT !.cb = cb1]
        ELSE [s EXCEPT !.cb = [cb1 EXCEPT !.handlers[handler_id].handler = NULL,
                                          !.available_evt_handlers = fr.mask],
                       !.assert_failed = s.assert_failed \/ fr.err # "NRFX_SUCCESS"]

find_handler(cb, handler, p_context) ==
    LET hit == {i \in HandlerIds : /\ cb.handlers[i].handler = handler
                                   /\ cb.handlers[i].p_context = p_context}
    IN  IF hit = {} THEN -1 ELSE CHOOSE i \in hit : \A j \in hit : i <= j

\* a variant that allocates a slot without looking for the pair
pin_handler_set_always_alloc(s, pin, handler, p_context) ==
    LET s1 == release_handler(s, pin)
        store(cb, id) ==
            [cb EXCEPT !.handlers[id] = [handler |-> handler, p_context |-> p_context],
                       !.pin_flags[get_pin_idx(pin)].handler_present = TRUE,
                       !.pin_flags[get_pin_idx(pin)].handler_id = id]
    IN  IF handler = NULL THEN {[s |-> s1, err |-> "NRFX_SUCCESS"]}
        ELSE {IF a.err # "NRFX_SUCCESS"
              THEN [s |-> s1, err |-> a.err]
              ELSE [s |-> [s1 EXCEPT !.cb = store([s1.cb EXCEPT
                                        !.available_evt_handlers = a.mask], a.id)],
                    err |-> "NRFX_SUCCESS"]
              : a \in nrfx_flag32_alloc(s1.cb.available_evt_handlers)}

\* the set of outcomes [s, err]: the allocator may hand out any free slot
pin_handler_set(s, pin, handler, p_context) ==
    LET s1 == release_handler(s, pin)
        found == find_handler(s1.cb, handler, p_context)
        store(cb, id) ==
            [cb EXCEPT !.handlers[id] = [handler |-> handler, p_context |-> p_context],
                       !.pin_flags[get_pin_idx(pin)].handler_present = TRUE,
                       !.pin_flags[get_pin_idx(pin)].handler_id = id]
    IN  IF handler = NULL THEN {[s |-> s1, err |-> "NRFX_SUCCESS"]}
        ELSE IF found >= 0
        THEN {[s |-> [s1 EXCEPT !.cb = store(s1.cb, found)], err |-> "NRFX_SUCCESS"]}
        ELSE {IF a.err # "NRFX_SUCCESS"
              THEN [s |-> s1, err |-> a.err]
              ELSE [s |-> [s1 EXCEPT !.cb = store([s1.cb EXCEPT
                                        !.available_evt_handlers = a.mask], a.id)],
                    err |-> "NRFX_SUCCESS"]
              : a \in nrfx_flag32_alloc(s1.cb.available_evt_handlers)}

(***************************************************************************)
(* Triggers and pin teardown.                                              *)
(***************************************************************************)
\* a variant that starts an edge trigger with the sense of the level read
get_initial_sense_same_level(s, pin) ==
    LET trigger == s.cb.pin_flags[get_pin_idx(pin)].trigger
    IN  IF trigger = NRFX_GPIOTE_TRIGGER_LOW THEN "LOW"
        ELSE IF trigger = NRFX_GPIOTE_TRIGGER_HIGH THEN "HIGH"
        ELSE IF s.hw.level[pin] THEN "HIGH" ELSE "LOW"

get_initial_sense(s, pin) ==
    LET trigger == s.cb.pin_flags[get_pin_idx(pin)].trigger
    IN  IF trigger = NRFX_GPIOTE_TRIGGER_LOW THEN "LOW"
        ELSE IF trigger = NRFX_GPIOTE_TRIGGER_HIGH THEN "HIGH"
        ELSE IF s.hw.level[pin] THEN "LOW" ELSE "HIGH"

\* with int_enable true
nrfx_gpiote_trigger_enable(s, pin) ==
    IF pin_in_use_by_te(s.cb, pin) /\ pin_is_input(s.cb, pin)
    THEN LET ch == pin_te_get(s.cb, pin)
         IN  [s EXCEPT !.hw = nrfy_gpiote_int_enable(
                                  nrfy_gpiote_event_enable(
                                      nrfy_gpiote_event_clear(s.hw, ch), ch), ch)]
    ELSE [s EXCEPT !.hw = nrfy_gpio_cfg_sense_set(s.hw, pin, get_initial_sense(s, pin))]

nrfx_gpiote_trigger_disable(s, pin) ==
    IF pin_in_use_by_te(s.cb, pin) /\ pin_is_input(s.cb, pin)
    THEN LET ch == pin_te_get(s.cb, pin)
         IN  [s EXCEPT !.hw = nrfy_gpiote_event_disable(
                                  nrfy_gpiote_int_disable(s.hw, ch), ch)]
    ELSE [s EXCEPT !.hw = nrfy_gpio_cfg_sense_set(s.hw, pin, "NOSENSE")]

pin_handler_trigger_uninit(s, pin) ==
    LET s1 == IF pin_in_use_by_te(s.cb, pin)
              THEN [s EXCEPT !.hw = nrfy_gpiote_te_default(s.hw, pin_te_get(s.cb, pin))]
              ELSE IF s.hw.latch_present THEN s
              ELSE [s EXCEPT !.cb.port_pins = @ \ {pin}]
        s2 == release_handler(s1, pin)
    IN  [s2 EXCEPT !.cb.pin_flags[get_pin_idx(pin)] = PIN_FLAG_NOT_USED]

\* PIN_CNF back to its reset value: SENSE off, the input buffer disconnected
nrfy_gpio_cfg_default(h, pin) ==
    nrfy_gpio_cfg_sense_set([h EXCEPT !.input_connect[pin] = FALSE], pin, "NOSENSE")

\* a variant that tears the pin down whether it is in use or not
pin_uninit_unchecked(s, pin) ==
    LET s1 == nrfx_gpiote_trigger_disable(s, pin)
        s2 == pin_handler_trigger_uninit(s1, pin)
    IN  [s |-> [s2 EXCEPT !.hw = nrfy_gpio_cfg_default(s2.hw, pin)],
         err |-> IF pin_in_use(s.cb, pin) THEN "NRFX_SUCCESS"
                 ELSE "NRFX_ERROR_INVALID_PARAM"]

nrfx_gpiote_pin_uninit(s, pin) ==
    IF ~pin_in_use(s.cb, pin) THEN [s |-> s, err |-> "NRFX_ERROR_INVALID_PARAM"]
    ELSE LET s1 == nrfx_gpiote_trigger_disable(s, pin)
             s2 == pin_handler_trigger_uninit(s1, pin)
         IN  [s |-> [s2 EXCEPT !.hw = nrfy_gpio_cfg_default(s2.hw, pin)],
              err |-> "NRFX_SUCCESS"]

(***************************************************************************)
(* Configuration.  An absent (NULL) option block has present = FALSE; a    *)
(* trigger block without p_in_channel has ch = NO_CHANNEL.                 *)
(***************************************************************************)
Ok(s) == [s |-> s, err |-> "NRFX_SUCCESS"]
InvalidParam(s) == [s |-> s, err |-> "NRFX_ERROR_INVALID_PARAM"]

\* the p_input_config block without the check of line 465
input_configure_input_unchecked(s, pin, ic) ==
    IF ~ic.present THEN Ok(s)
    ELSE Ok([s EXCEPT !.hw = nrfy_gpio_reconfigure(s.hw, pin, TRUE),
                      !.cb.pin_flags[get_pin_idx(pin)].output = FALSE,
                      !.cb.pin_flags[get_pin_idx(pin)].in_use = TRUE])

\* lines 463-477: the p_input_config block
input_configure_input(s, pin, ic) ==
    IF ~ic.present THEN Ok(s)
    ELSE IF pin_is_task_output(s.cb, pin) THEN InvalidParam(s)
    ELSE Ok([s EXCEPT !.hw = nrfy_gpio_reconfigure(s.hw, pin, TRUE),
                      !.cb.pin_flags[get_pin_idx(pin)].output = FALSE,
                      !.cb.pin_flags[get_pin_idx(pin)].in_use = TRUE])

\* a variant whose PIN_FLAG_TE_ID keeps no bit of the channel index
input_configure_trigger_te_id_lost(s, pin, tc) ==
    LET idx == get_pin_idx(pin)
        trigger == tc.trigger
        use_evt == tc.ch # NO_CHANNEL
        edge == trigger <= NRFX_GPIOTE_TRIGGER_TOGGLE
        cleared == [s EXCEPT !.cb.pin_flags[idx].te_used = FALSE,
                             !.cb.pin_flags[idx].te_id = 0]
        bound == IF use_evt /\ trigger # NRFX_GPIOTE_TRIGGER_NONE
                 THEN [cleared EXCEPT !.cb.pin_flags[idx].te_used = TRUE]
                 ELSE cleared
        te == IF ~use_evt THEN bound.hw
              ELSE IF trigger = NRFX_GPIOTE_TRIGGER_NONE
              THEN nrfy_gpiote_te_default(bound.hw, tc.ch)
              ELSE nrfy_gpiote_event_configure(nrfy_gpiote_event_disable(bound.hw, tc.ch),
                                               tc.ch, pin, trigger)
        s1 == IF pin_is_output(s.cb, pin) THEN s ELSE [bound EXCEPT !.hw = te]
        s2 == IF s1.hw.latch_present THEN s1
              ELSE IF use_evt \/ trigger = NRFX_GPIOTE_TRIGGER_NONE
              THEN [s1 EXCEPT !.cb.port_pins = @ \ {pin}]
              ELSE [s1 EXCEPT !.cb.port_pins = @ \cup {pin}]
    IN  IF ~tc.present THEN Ok(s)
        ELSE IF pin_is_output(s.cb, pin) /\ use_evt THEN InvalidParam(s)
        ELSE IF ~pin_is_output(s.cb, pin) /\ use_evt /\ ~edge THEN InvalidParam(cleared)
        ELSE Ok([s2 EXCEPT !.cb.pin_flags[idx].trigger = trigger])

\* a variant that binds a channel for a level trigger as for an edge
input_configure_trigger_any_kind(s, pin, tc) ==
    LET idx == get_pin_idx(pin)
        trigger == tc.trigger
        use_evt == tc.ch # NO_CHANNEL
        cleared == [s EXCEPT !.cb.pin_flags[idx].te_used = FALSE,
                             !.cb.pin_flags[idx].te_id = 0]
        bound == IF use_evt /\ trigger # NRFX_GPIOTE_TRIGGER_NONE
                 THEN [cleared EXCEPT !.cb.pin_flags[idx].te_used = TRUE,
                                      !.cb.pin_flags[idx].te_id = tc.ch]
                 ELSE cleared
        te == IF ~use_evt THEN bound.hw
              ELSE IF trigger = NRFX_GPIOTE_TRIGGER_NONE
              THEN nrfy_gpiote_te_default(bound.hw, tc.ch)
              ELSE nrfy_gpiote_event_configure(nrfy_gpiote_event_disable(bound.hw, tc.ch),
                                               tc.ch, pin, trigger)
        s1 == IF pin_is_output(s.cb, pin) THEN s ELSE [bound EXCEPT !.hw = te]
        s2 == IF s1.hw.latch_present THEN s1
              ELSE IF use_evt \/ trigger = NRFX_GPIOTE_TRIGGER_NONE
              THEN [s1 EXCEPT !.cb.port_pins = @ \ {pin}]
              ELSE [s1 EXCEPT !.cb.port_pins = @ \cup {pin}]
    IN  IF ~tc.present THEN Ok(s)
        ELSE IF pin_is_output(s.cb, pin) /\ use_evt THEN InvalidParam(s)
        ELSE Ok([s2 EXCEPT !.cb.pin_flags[idx].trigger = trigger])

\* lines 479-534: the p_trigger_config block
input_configure_trigger(s, pin, tc) ==
    LET idx == get_pin_idx(pin)
        trigger == tc.trigger
        use_evt == tc.ch # NO_CHANNEL
        edge == trigger <= NRFX_GPIOTE_TRIGGER_TOGGLE
        cleared == [s EXCEPT !.cb.pin_flags[idx].te_used = FALSE,
                             !.cb.pin_flags[idx].te_id = 0]
        bound == IF use_evt /\ trigger # NRFX_GPIOTE_TRIGGER_NONE
                 THEN [cleared EXCEPT !.cb.pin_flags[idx].te_used = TRUE,
                                      !.cb.pin_flags[idx].te_id = tc.ch]
                 ELSE cleared
        te == IF ~use_evt THEN bound.hw
              ELSE IF trigger = NRFX_GPIOTE_TRIGGER_NONE
              THEN nrfy_gpiote_te_default(bound.hw, tc.ch)
              ELSE nrfy_gpiote_event_configure(nrfy_gpiote_event_disable(bound.hw, tc.ch),
                                               tc.ch, pin, trigger)
        s1 == IF pin_is_output(s.cb, pin) THEN s ELSE [bound EXCEPT !.hw = te]
        s2 == IF s1.hw.latch_present THEN s1
              ELSE IF use_evt \/ trigger = NRFX_GPIOTE_TRIGGER_NONE
              THEN [s1 EXCEPT !.cb.port_pins = @ \ {pin}]
              ELSE [s1 EXCEPT !.cb.port_pins = @ \cup {pin}]
    IN  IF ~tc.present THEN Ok(s)
        ELSE IF pin_is_output(s.cb, pin) /\ use_evt THEN InvalidParam(s)
        ELSE IF ~pin_is_output(s.cb, pin) /\ use_evt /\ ~edge THEN InvalidParam(cleared)
        ELSE Ok([s2 EXCEPT !.cb.pin_flags[idx].trigger = trigger])

\* a variant that goes on to the handler block after the trigger block's refusal
input_configure_handler_anyway(s, pin, ic, tc, hc) ==
    LET r1 == input_configure_input(s, pin, ic)
        r2 == input_configure_trigger(r1.s, pin, tc)
    IN  IF r1.err # "NRFX_SUCCESS" THEN {r1}
        ELSE IF hc.present
        THEN {[s |-> r.s, err |-> IF r2.err # "NRFX_SUCCESS" THEN r2.err ELSE r.err]
                 : r \in pin_handler_set(r2.s, pin, hc.handler, hc.p_context)}
        ELSE {r2}

\* the set of outcomes [s, err] of one call
nrfx_gpiote_input_configure(s, pin, ic, tc, hc) ==
    LET r1 == input_configure_input(s, pin, ic)
        r2 == input_configure_trigger(r1.s, pin, tc)
    IN  IF r1.err # "NRFX_SUCCESS" THEN {r1}
        ELSE IF r2.err # "NRFX_SUCCESS" THEN {r2}
        ELSE IF hc.present THEN pin_handler_set(r2.s, pin, hc.handler, hc.p_context)
        ELSE {Ok(r2.s)}

\* a variant without the test for an input pin bound to a channel
output_configure_output_unchecked(s, pin, oc) ==
    IF ~oc.present THEN Ok(s)
    ELSE IF pin_has_trigger(s.cb, pin) /\ ~oc.input_connect THEN InvalidParam(s)
    ELSE Ok([s EXCEPT !.hw = nrfy_gpio_reconfigure(s.hw, pin, oc.input_connect),
                      !.cb.pin_flags[get_pin_idx(pin)].in_use = TRUE,
                      !.cb.pin_flags[get_pin_idx(pin)].output = TRUE])

\* lines 554-575: the p_config block
output_configure_output(s, pin, oc) ==
    IF ~oc.present THEN Ok(s)
    ELSE IF pin_is_input(s.cb, pin) /\ pin_in_use_by_te(s.cb, pin) THEN InvalidParam(s)
    ELSE IF pin_has_trigger(s.cb, pin) /\ ~oc.input_connect THEN InvalidParam(s)
    ELSE Ok([s EXCEPT !.hw = nrfy_gpio_reconfigure(s.hw, pin, oc.input_connect),
                      !.cb.pin_flags[get_pin_idx(pin)].in_use = TRUE,
                      !.cb.pin_flags[get_pin_idx(pin)].output = TRUE])

\* lines 577-595: the p_task_config block
output_configure_task(s, pin, kc) ==
    LET idx == get_pin_idx(pin)
        cleared == [s EXCEPT !.cb.pin_flags[idx].te_used = FALSE,
                             !.cb.pin_flags[idx].te_id = 0]
    IN  IF ~kc.present THEN Ok(s)
        ELSE IF pin_is_input(s.cb, pin) THEN InvalidParam(s)
        ELSE IF kc.polarity # NRF_GPIOTE_POLARITY_NONE
        THEN Ok([cleared EXCEPT !.cb.pin_flags[idx].te_used = TRUE,
                                !.cb.pin_flags[idx].te_id = kc.task_ch,
                                !.hw = nrfy_gpiote_task_configure(
                                           nrfy_gpiote_te_default(s.hw, kc.task_ch),
                                           kc.task_ch, pin, kc.polarity)])
        ELSE Ok([cleared EXCEPT !.hw = nrfy_gpiote_te_default(s.hw, kc.task_ch)])

nrfx_gpiote_output_configure(s, pin, oc, kc) ==
    LET r1 == output_configure_output(s, pin, oc)
    IN  IF r1.err # "NRFX_SUCCESS" THEN r1 ELSE output_configure_task(r1.s, pin, kc)

\* a variant that hands out a free channel without taking it from the pool
channel_alloc_not_taken(s) ==
    {[s |-> s, err |-> a.err, channel |-> a.id]
        : a \in nrfx_flag32_alloc(s.cb.available_channels_mask)}

\* the outcomes [s, err, channel] of nrfx_gpiote_channel_alloc
nrfx_gpiote_channel_alloc(s) ==
    {[s |-> [s EXCEPT !.cb.available_channels_mask = a.mask], err |-> a.err,
      channel |-> a.id] : a \in nrfx_flag32_alloc(s.cb.available_channels_mask)}

nrfx_gpiote_channel_free(s, channel) ==
    LET f == nrfx_flag32_free(s.cb.available_channels_mask, channel)
    IN  [s |-> [s EXCEPT !.cb.available_channels_mask = f.mask], err |-> f.err]

nrfx_gpiote_global_callback_set(s, handler, p_context) ==
    [s EXCEPT !.cb.global_handler = [handler |-> handler, p_context |-> p_context]]

(***************************************************************************)
(* Driver lifecycle.                                                       *)
(***************************************************************************)
\* a variant without the test of m_cb.state
nrfx_gpiote_init_unchecked(s) ==
    Ok([s EXCEPT !.cb.pin_flags = [i \in Pins |-> PIN_FLAG_NOT_USED],
                 !.cb.state = "INITIALIZED",
                 !.cb.available_evt_handlers = HandlerIds,
                 !.hw.port_event = FALSE])

nrfx_gpiote_init(s) ==
    IF s.cb.state # "UNINITIALIZED"
    THEN [s |-> s, err |-> "NRFX_ERROR_INVALID_STATE"]
    ELSE Ok([s EXCEPT !.cb.pin_flags = [i \in Pins |-> PIN_FLAG_NOT_USED],
                      !.cb.state = "INITIALIZED",
                      !.cb.available_evt_handlers = HandlerIds,
                      !.hw.port_event = FALSE])

RECURSIVE uninit_pins(_, _)
uninit_pins(s, i) ==
    IF i >= MAX_PIN_NUMBER THEN s
    ELSE uninit_pins(IF pin_in_use(s.cb, i) THEN nrfx_gpiote_pin_uninit(s, i).s ELSE s,
                     i + 1)

\* a variant whose loop stops before the last pin
uninit_last_pin_skipped(s) ==
    LET last == MAX_PIN_NUMBER - 1
        s1 == uninit_pins(s, 0)
    IN  [s1 EXCEPT !.cb.pin_flags[last] = s.cb.pin_flags[last],
                   !.cb.state = "UNINITIALIZED"]

nrfx_gpiote_uninit(s) == [uninit_pins(s, 0) EXCEPT !.cb.state = "UNINITIALIZED"]

(***************************************************************************)
(* The state machine.                                                      *)
(***************************************************************************)
S == [cb |-> m_cb, hw |-> hw, assert_failed |-> FALSE]

\* fresh: the pin's record was all-default when input_configure was called
Called(op, pin, r) ==
    [op |-> op, pin |-> pin, err |-> r.err, assert_failed |-> r.s.assert_failed,
     fresh |-> op = "input_configure" /\ m_cb.pin_flags[pin] = PIN_FLAG_NOT_USED]

IrqIdle ==
    [pc |-> "idle", input |-> {}, pins_to_check |-> {}, latch |-> {}, pin |-> 0,
     trigger |-> NRFX_GPIOTE_TRIGGER_NONE, sense |-> "NOSENSE", evt_mask |-> {}]

NoEvent ==
    [kind |-> "none", pin |-> 0, trigger |-> NRFX_GPIOTE_TRIGGER_NONE,
     sense |-> "NOSENSE", dispatched |-> FALSE, calls |-> <<>>]

InitCb ==
    [handlers |-> [i \in HandlerIds |-> NoHandlerCfg],
     pin_flags |-> [i \in Pins |-> PIN_FLAG_NOT_USED],
     available_channels_mask |-> Channels,
     available_evt_handlers |-> {},
     global_handler |-> NoHandlerCfg,
     port_pins |-> {},
     state |-> "UNINITIALIZED"]

InitHw(latch_present) ==
    [latch_present |-> latch_present,
     level |-> [p \in Pins |-> FALSE],
     sense |-> [p \in Pins |-> "NOSENSE"],
     latch |-> [p \in Pins |-> FALSE],
     port_event |-> FALSE,
     input_connect |-> [p \in Pins |-> FALSE],
     te_model |-> FALSE,
     te |-> [c \in Channels |-> TeDefault],
     in_event |-> {},
     inten |-> {}]

\* the image after reset, in the build without NRF_GPIO_LATCH_PRESENT
Init ==
    /\ m_cb = InitCb
    /\ hw = InitHw(FALSE)
    /\ irq = IrqIdle
    /\ call = [op |-> "reset", pin |-> 0, err |-> "NRFX_SUCCESS", assert_failed |-> FALSE,
               fresh |-> FALSE]
    /\ reg = [p \in Pins |-> NoHandlerCfg]
    /\ ev = NoEvent
    /\ obs = [p \in Pins |-> [none |-> TRUE]]

InputCfgs == [present : BOOLEAN]
NoTrigger == [present |-> FALSE, trigger |-> NRFX_GPIOTE_TRIGGER_NONE, ch |-> NO_CHANNEL]
TriggerCfgs ==
    {NoTrigger} \cup [present : {TRUE}, trigger : Triggers, ch : Channels \cup {NO_CHANNEL}]
NoHandlerOpt == [present |-> FALSE, handler |-> NULL, p_context |-> 0]
HandlerCfgs ==
    {NoHandlerOpt} \cup
    [present : {TRUE}, handler : {NULL} \cup Callbacks, p_context : Contexts]
NoOutput == [present |-> FALSE, input_connect |-> TRUE]
OutputCfgs == {NoOutput} \cup [present : {TRUE}, input_connect : BOOLEAN]
NoTask == [present |-> FALSE, task_ch |-> 0, polarity |-> NRF_GPIOTE_POLARITY_NONE]
TaskCfgs ==
    {NoTask} \cup
    [present : {TRUE}, task_ch : Channels,
     polarity : {NRF_GPIOTE_POLARITY_NONE, NRFX_GPIOTE_TRIGGER_TOGGLE}]

\* what the pin has registered once the call has returned r; a call refused
\* with NRFX_ERROR_INVALID_PARAM has not reached its handler block
Registered(pin, hc, r) ==
    IF hc.present /\ r.err # "NRFX_ERROR_INVALID_PARAM"
       /\ r.s.cb.pin_flags[pin].handler_present
    THEN [handler |-> hc.handler, p_context |-> hc.p_context]
    ELSE IF r.s.cb.pin_flags[pin].handler_present THEN reg[pin]
    ELSE NoHandlerCfg

DriverInit ==
    LET r == nrfx_gpiote_init(S)
    IN  /\ irq.pc = "idle"
        /\ m_cb' = r.s.cb
        /\ hw' = r.s.hw
        /\ call' = Called("init", 0, r)
        /\ reg' = IF r.err = "NRFX_SUCCESS" THEN [p \in Pins |-> NoHandlerCfg] ELSE reg
        /\ UNCHANGED <<irq, ev, obs>>

DriverUninit ==
    LET s1 == nrfx_gpiote_uninit(S)
    IN  /\ irq.pc = "idle"
        /\ m_cb.state # "UNINITIALIZED"
        /\ m_cb' = s1.cb
        /\ hw' = s1.hw
        /\ call' = Called("uninit", 0, Ok(s1))
        /\ reg' = [p \in Pins |-> IF s1.cb.pin_flags[p].handler_present
                                  THEN reg[p] ELSE NoHandlerCfg]
        /\ UNCHANGED <<irq, ev, obs>>

InputConfigureCall(pin, ic, tc, hc) ==
    /\ irq.pc = "idle"
    /\ m_cb.state = "INITIALIZED"
    /\ \E r \in nrfx_gpiote_input_configure(S, pin, ic, tc, hc) :
          /\ m_cb' = r.s.cb
          /\ hw' = r.s.hw
          /\ call' = Called("input_configure", pin, r)
          /\ reg' = [reg EXCEPT ![pin] = Registered(pin, hc, r)]
    /\ UNCHANGED <<irq, ev, obs>>

OutputConfigureCall(pin, oc, kc) ==
    LET r == nrfx_gpiote_output_configure(S, pin, oc, kc)
    IN  /\ irq.pc = "idle"
        /\ m_cb.state = "INITIALIZED"
        /\ m_cb' = r.s.cb
        /\ hw' = r.s.hw
        /\ call' = Called("output_configure", pin, r)
        /\ UNCHANGED <<irq, reg, ev, obs>>

PinUninitCall(pin) ==
    LET r == nrfx_gpiote_pin_uninit(S, pin)
    IN  /\ irq.pc = "idle"
        /\ m_cb.state = "INITIALIZED"
        /\ m_cb' = r.s.cb
        /\ hw' = r.s.hw
        /\ call' = Called("pin_uninit", pin, r)
        /\ reg' = [reg EXCEPT ![pin] = IF r.err = "NRFX_SUCCESS" THEN NoHandlerCfg ELSE @]
        /\ UNCHANGED <<irq, ev, obs>>

(***************************************************************************)
(* SpecHandlers: the handler registry under registration, clearing, pin    *)
(* teardown and driver re-initialisation.                                  *)
(***************************************************************************)
RegisterHandler ==
    \E pin \in Pins, ic \in InputCfgs, hc \in HandlerCfgs :
        InputConfigureCall(pin, ic, NoTrigger, hc)

PinUninit == \E pin \in Pins : PinUninitCall(pin)

NextHandlers == DriverInit \/ DriverUninit \/ RegisterHandler \/ PinUninit

SpecHandlers == Init /\ [][NextHandlers]_vars

(***************************************************************************)
(* SpecPins: direction, trigger and channel configuration of the pins.     *)
(* A call with several option blocks applies them in order and stops at    *)
(* the first rejection, so the reachable pin records are those of calls    *)
(* with one block each; the call with both of its first two blocks is kept *)
(* for its return value.  Triggers are drawn from one of each class (none, *)
(* edge, level).                                                           *)
(***************************************************************************)
NoInput == [present |-> FALSE]
PinTriggerCfgs ==
    [present : {TRUE},
     trigger : {NRFX_GPIOTE_TRIGGER_NONE, NRFX_GPIOTE_TRIGGER_LOTOHI,
                NRFX_GPIOTE_TRIGGER_HIGH},
     ch : Channels \cup {NO_CHANNEL}]

InputConfigure ==
    \E pin \in Pins, ic \in InputCfgs, tc \in PinTriggerCfgs \cup {NoTrigger} :
        /\ ic.present \/ tc.present
        /\ InputConfigureCall(pin, ic, tc, NoHandlerOpt)

OutputConfigure ==
    \E pin \in Pins, oc \in OutputCfgs, kc \in TaskCfgs :
        /\ oc.present \/ kc.present
        /\ OutputConfigureCall(pin, oc, kc)

NextPins == DriverInit \/ DriverUninit \/ InputConfigure \/ OutputConfigure \/ PinUninit

SpecPins == Init /\ [][NextPins]_vars

(***************************************************************************)
(* SpecKind: the calls of SpecPins seen from the caller.  obs[p].kind is   *)
(* what the call that bound p to a channel last configured the channel as  *)
(* (nrfy_gpiote_event_configure, line 516: "event"; nrfy_gpiote_task_      *)
(* configure, line 590: "task"), obs[p].ch the channel it named.           *)
(***************************************************************************)
\* a variant that reports channel 0 for every bound pin
channel_get_zero(s, pin) ==
    IF pin_in_use_by_te(s.cb, pin)
    THEN [err |-> "NRFX_SUCCESS", channel |-> 0]
    ELSE [err |-> "NRFX_ERROR_INVALID_PARAM", channel |-> NO_CHANNEL]

nrfx_gpiote_channel_get(s, pin) ==
    IF pin_in_use_by_te(s.cb, pin)
    THEN [err |-> "NRFX_SUCCESS", channel |-> s.cb.pin_flags[get_pin_idx(pin)].te_id]
    ELSE [err |-> "NRFX_ERROR_INVALID_PARAM", channel |-> NO_CHANNEL]

\* the call returned success and reached line 516 with the channel of tc
BindsEvent(tc, r) ==
    /\ r.err = "NRFX_SUCCESS"
    /\ tc.present /\ tc.ch # NO_CHANNEL /\ tc.trigger # NRFX_GPIOTE_TRIGGER_NONE

\* the call returned success and reached line 590 with the channel of kc
BindsTask(kc, r) ==
    /\ r.err = "NRFX_SUCCESS"
    /\ kc.present /\ kc.polarity # NRF_GPIOTE_POLARITY_NONE

\* what is remembered of a binding is dropped with the binding
KindObserver(cb, o) ==
    [p \in Pins |-> IF pin_in_use_by_te(cb, p) THEN o[p]
                    ELSE [kind |-> "none", ch |-> NO_CHANNEL]]

InitKind ==
    /\ m_cb = InitCb
    /\ hw = InitHw(FALSE)
    /\ irq = IrqIdle
    /\ call = [op |-> "reset", pin |-> 0, err |-> "NRFX_SUCCESS", assert_failed |-> FALSE,
               fresh |-> FALSE]
    /\ reg = [p \in Pins |-> NoHandlerCfg]
    /\ ev = NoEvent
    /\ obs = [p \in Pins |-> [kind |-> "none", ch |-> NO_CHANNEL]]

KindInit ==
    LET r == nrfx_gpiote_init(S)
    IN  /\ m_cb' = r.s.cb
        /\ hw' = r.s.hw
        /\ call' = Called("init", 0, r)
        /\ obs' = KindObserver(r.s.cb, obs)
        /\ UNCHANGED <<irq, reg, ev>>

KindUninit ==
    LET s1 == nrfx_gpiote_uninit(S)
    IN  /\ m_cb.state # "UNINITIALIZED"
        /\ m_cb' = s1.cb
        /\ hw' = s1.hw
        /\ call' = Called("uninit", 0, Ok(s1))
        /\ obs' = KindObserver(s1.cb, obs)
        /\ UNCHANGED <<irq, reg, ev>>

KindInputConfigure ==
    \E pin \in Pins, ic \in InputCfgs, tc \in PinTriggerCfgs \cup {NoTrigger} :
        /\ ic.present \/ tc.present
        /\ m_cb.state = "INITIALIZED"
        /\ \E r \in nrfx_gpiote_input_configure(S, pin, ic, tc, NoHandlerOpt) :
              /\ m_cb' = r.s.cb
              /\ hw' = r.s.hw
              /\ call' = Called("input_configure", pin, r)
              /\ obs' = KindObserver(r.s.cb, IF BindsEvent(tc, r)
                                     THEN [obs EXCEPT ![pin] = [kind |-> "event", ch |-> tc.ch]]
                                     ELSE obs)
        /\ UNCHANGED <<irq, reg, ev>>

KindOutputConfigure ==
    \E pin \in Pins, oc \in OutputCfgs, kc \in TaskCfgs :
        LET r == nrfx_gpiote_output_configure(S, pin, oc, kc)
        IN  /\ oc.present \/ kc.present
            /\ m_cb.state = "INITIALIZED"
            /\ m_cb' = r.s.cb
            /\ hw' = r.s.hw
            /\ call' = Called("output_configure", pin, r)
            /\ obs' = KindObserver(r.s.cb, IF BindsTask(kc, r)
                                   THEN [obs EXCEPT ![pin] = [kind |-> "task", ch |-> kc.task_ch]]
                                   ELSE obs)
            /\ UNCHANGED <<irq, reg, ev>>

KindPinUninit ==
    \E pin \in Pins :
        LET r == nrfx_gpiote_pin_uninit(S, pin)
        IN  /\ m_cb.state = "INITIALIZED"
            /\ m_cb' = r.s.cb
            /\ hw' = r.s.hw
            /\ call' = Called("pin_uninit", pin, r)
            /\ obs' = KindObserver(r.s.cb, obs)
            /\ UNCHANGED <<irq, reg, ev>>

NextKind ==
    KindInit \/ KindUninit \/ KindInputConfigure \/ KindOutputConfigure \/ KindPinUninit

SpecKind == InitKind /\ [][NextKind]_vars

(***************************************************************************)
(* The PORT-event path of nrfx_gpiote_irq_handler.  The interrupt runs one *)
(* step at a time; between any two steps the pins may change level.  The   *)
(* code from one access of the peripheral up to the next is one step.      *)
(* irq.pc: "idle" (not in the handler), "port" (entering port_event_handle)*)
(* "sweep" (in the while over the pins), "callback" (inside the user       *)
(* handler), "read" (PORT cleared, about to read the latches or inputs),    *)
(* "events" (in gpiote_evt_handle, channels left in irq.evt_mask).         *)
(***************************************************************************)
\* nrfy_gpiote_events_process on the PORT event: read it and clear it
events_process_port(h) == [h EXCEPT !.port_event = FALSE]

\* nrf_gpiote_int_enable_check: the IN events that are set and enabled
enabled_in_events(h) == h.in_event \cap h.inten

\* nrfy_gpiote_events_process on those IN events: read them and clear them
events_process_in(h) == [h EXCEPT !.in_event = @ \ h.inten]

gpiote_polarity_to_trigger(polarity) == polarity

nrfy_gpio_ports_read(h) == {p \in Pins : h.level[p]}

\* nrfy_gpio_latches_read_and_clear: the value read, and the peripheral after the
\* write-back, where the bit of a pin whose DETECT is still high stays set
latches_read(h) == {p \in Pins : h.latch[p]}
latches_clear(h) == [h EXCEPT !.latch = [p \in Pins |-> h.latch[p] /\ PinDetect(h, p)]]

NRF_CTZ(mask) == CHOOSE p \in mask : \A q \in mask : p <= q

channel_handler_get(cb, pin) ==
    LET handler_id == PIN_GET_HANDLER_ID(cb.pin_flags[get_pin_idx(pin)])
    IN  IF handler_id = PIN_FLAG_NO_HANDLER THEN NoHandlerCfg ELSE cb.handlers[handler_id]

\* a variant that falls back to the global handler only for a pin without one
call_handler_fallback(cb, pin, trigger) ==
    LET handler == channel_handler_get(cb, pin)
        invoke(h) == IF h.handler = NULL THEN <<>>
                     ELSE <<[handler |-> h.handler, pin |-> pin, trigger |-> trigger,
                             p_context |-> h.p_context]>>
    IN  IF handler.handler # NULL THEN invoke(handler) ELSE invoke(cb.global_handler)

\* the callbacks call_handler invokes, in order
call_handler(cb, pin, trigger) ==
    LET handler == channel_handler_get(cb, pin)
        invoke(h) == IF h.handler = NULL THEN <<>>
                     ELSE <<[handler |-> h.handler, pin |-> pin, trigger |-> trigger,
                             p_context |-> h.p_context]>>
    IN  invoke(handler) \o invoke(cb.global_handler)

\* next_sense_cond_call_handler, edge branch: the sense to arm next and whether
\* the handler is called
next_sense(sense) == IF sense = "HIGH" THEN "LOW" ELSE "HIGH"

\* a variant with the two polarities exchanged
edge_calls_handler_swapped(trigger, sense) ==
    \/ trigger = NRFX_GPIOTE_TRIGGER_TOGGLE
    \/ sense = "LOW" /\ trigger = NRFX_GPIOTE_TRIGGER_LOTOHI
    \/ sense = "HIGH" /\ trigger = NRFX_GPIOTE_TRIGGER_HITOLO

edge_calls_handler(trigger, sense) ==
    \/ trigger = NRFX_GPIOTE_TRIGGER_TOGGLE
    \/ sense = "HIGH" /\ trigger = NRFX_GPIOTE_TRIGGER_LOTOHI
    \/ sense = "LOW" /\ trigger = NRFX_GPIOTE_TRIGGER_HITOLO

\* a variant that re-arms whatever the sense has become
level_rearm_always(h, pin, sense) ==
    nrfy_gpio_cfg_sense_set(nrfy_gpio_cfg_sense_set(h, pin, "NOSENSE"), pin, sense)

\* next_sense_cond_call_handler, level branch after call_handler has returned
level_rearm(h, pin, sense) ==
    IF h.sense[pin] = sense
    THEN nrfy_gpio_cfg_sense_set(nrfy_gpio_cfg_sense_set(h, pin, "NOSENSE"), pin, sense)
    ELSE h

\* the non-LATCH loop's test before next_sense_cond_call_handler
state_matches_sense(pin_state, sense) ==
    (pin_state /\ sense = "HIGH") \/ (~pin_state /\ sense = "LOW")

\* a variant that leaves the snapshot as it was read
trick_left_out(cb, h, input) == input

\* the "small trick": the snapshot bit of an armed level-triggered pin is set to
\* the opposite of its trigger level
trick(cb, h, input) ==
    {p \in Pins :
        IF p \in cb.port_pins /\ h.sense[p] # "NOSENSE"
           /\ cb.pin_flags[get_pin_idx(p)].trigger = NRFX_GPIOTE_TRIGGER_HIGH THEN FALSE
        ELSE IF p \in cb.port_pins /\ h.sense[p] # "NOSENSE"
                /\ cb.pin_flags[get_pin_idx(p)].trigger = NRFX_GPIOTE_TRIGGER_LOW THEN TRUE
        ELSE p \in input}

\* a variant with & in place of ^
input_diff_and(input, new_input) == input \cap new_input

\* input_read_and_check: input ^ new_input
input_diff(input, new_input) == (input \ new_input) \cup (new_input \ input)

Event(kind, pin) == [NoEvent EXCEPT !.kind = kind, !.pin = pin]

\* a pin changes level
LevelChange(pin) ==
    /\ hw' = HwSettle(hw, [hw EXCEPT !.level[pin] = ~@])
    /\ ev' = Event("level", pin)
    /\ UNCHANGED <<m_cb, irq, call, reg>>

\* nrfx_gpiote_irq_handler is entered on a pending event: the events are
\* collected and cleared, the PORT event is handled first
IrqEnter ==
    /\ irq.pc = "idle"
    /\ m_cb.state = "INITIALIZED"
    /\ hw.port_event \/ enabled_in_events(hw) # {}
    /\ hw' = events_process_in(events_process_port(hw))
    /\ irq' = [irq EXCEPT !.pc = IF hw.port_event THEN "port" ELSE "events",
                          !.evt_mask = enabled_in_events(hw)]
    /\ ev' = Event("enter", 0)
    /\ UNCHANGED <<m_cb, call, reg>>

\* port_event_handle up to its do-loop
PortStart ==
    /\ irq.pc = "port"
    /\ IF hw.latch_present
       THEN /\ irq' = [irq EXCEPT !.pc = "sweep", !.latch = latches_read(hw)]
            /\ hw' = latches_clear(hw)
       ELSE /\ irq' = [irq EXCEPT !.pc = "sweep", !.input = nrfy_gpio_ports_read(hw),
                                  !.pins_to_check = m_cb.port_pins]
            /\ hw' = hw
    /\ ev' = Event("pass", 0)
    /\ UNCHANGED <<m_cb, call, reg>>

ToCheck == IF hw.latch_present THEN irq.latch ELSE irq.pins_to_check

\* one turn of the inner while, up to the call of the handler if there is one
ProcessPin ==
    LET pin == NRF_CTZ(ToCheck)
        trigger == m_cb.pin_flags[get_pin_idx(pin)].trigger
        sense == hw.sense[pin]
        pin_state == pin \in irq.input
        taken == [irq EXCEPT !.latch = @ \ {pin}, !.pins_to_check = @ \ {pin}]
        flipped == nrfy_gpio_cfg_sense_set(hw, pin, next_sense(sense))
        processed(dispatched) ==
            [kind |-> "process", pin |-> pin, trigger |-> trigger, sense |-> sense,
             dispatched |-> dispatched,
             calls |-> IF dispatched THEN call_handler(m_cb, pin, trigger) ELSE <<>>]
        in_handler == [taken EXCEPT !.pc = "callback", !.pin = pin,
                                    !.trigger = trigger, !.sense = sense]
    IN  /\ irq.pc = "sweep"
        /\ ToCheck # {}
        /\ IF ~hw.latch_present /\ ~state_matches_sense(pin_state, sense)
           THEN /\ irq' = taken
                /\ hw' = hw
                /\ ev' = Event("skip", pin)
           ELSE IF is_level(trigger)
           THEN /\ irq' = in_handler
                /\ hw' = hw
                /\ ev' = processed(TRUE)
           ELSE IF edge_calls_handler(trigger, sense)
           THEN /\ irq' = in_handler
                /\ hw' = flipped
                /\ ev' = processed(TRUE)
           ELSE /\ irq' = taken
                /\ hw' = IF hw.latch_present THEN nrfy_gpio_pin_latch_clear(flipped, pin)
                         ELSE flipped
                /\ ev' = processed(FALSE)
        /\ UNCHANGED <<m_cb, call, reg>>

\* the handler returns: the rest of next_sense_cond_call_handler and of the turn
CallbackReturn ==
    LET h1 == IF is_level(irq.trigger) THEN level_rearm(hw, irq.pin, irq.sense) ELSE hw
    IN  /\ irq.pc = "callback"
        /\ hw' = IF hw.latch_present THEN nrfy_gpio_pin_latch_clear(h1, irq.pin) ELSE h1
        /\ irq' = [irq EXCEPT !.pc = "sweep"]
        /\ ev' = Event("handled", irq.pin)
        /\ UNCHANGED <<m_cb, call, reg>>

\* the pins are done: up to the clearing of the PORT event
SweepDone ==
    /\ irq.pc = "sweep"
    /\ ToCheck = {}
    /\ irq' = IF hw.latch_present THEN [irq EXCEPT !.pc = "read"]
              ELSE [irq EXCEPT !.pc = "read", !.pins_to_check = m_cb.port_pins,
                               !.input = trick(m_cb, hw, irq.input)]
    /\ hw' = events_process_port(hw)
    /\ ev' = Event("swept", 0)
    /\ UNCHANGED <<m_cb, call, reg>>

\* latch_pending_read_and_check / input_read_and_check and the loop's test
ReadAndCheck ==
    LET new_input == nrfy_gpio_ports_read(hw)
        diff == input_diff(irq.input, new_input)
        again == IF hw.latch_present THEN latches_read(hw) # {} ELSE diff # {}
        done == IF irq.evt_mask # {} THEN "events" ELSE "idle"
    IN  /\ irq.pc = "read"
        /\ IF hw.latch_present
           THEN /\ irq' = [irq EXCEPT !.pc = IF again THEN "sweep" ELSE done,
                                      !.latch = latches_read(hw)]
                /\ hw' = latches_clear(hw)
           ELSE /\ irq' = [irq EXCEPT !.pc = IF again THEN "sweep" ELSE done,
                                      !.input = new_input,
                                      !.pins_to_check = IF again THEN @ \cap diff ELSE {}]
                /\ hw' = hw
        /\ ev' = Event(IF again THEN "pass" ELSE "return", 0)
        /\ UNCHANGED <<m_cb, call, reg>>

\* gpiote_evt_handle: one turn of its loop, the handlers called and returned
EvtHandle ==
    LET ch == NRF_CTZ(irq.evt_mask)
        pin == hw.te[ch].pin
        polarity == hw.te[ch].polarity
        trigger == gpiote_polarity_to_trigger(polarity)
        mask == irq.evt_mask \ {ch}
    IN  /\ irq.pc = "events"
        /\ irq' = [irq EXCEPT !.evt_mask = mask,
                              !.pc = IF mask = {} THEN "idle" ELSE "events"]
        /\ ev' = [kind |-> "channel", pin |-> pin, trigger |-> trigger,
                  sense |-> "NOSENSE", dispatched |-> TRUE,
                  calls |-> call_handler(m_cb, pin, trigger)]
        /\ UNCHANGED <<m_cb, hw, call, reg>>

\* an unused pin becomes a handled input with a software-sensed trigger
ConfigurePortPin(pin, trigger) ==
    LET ic == [present |-> TRUE]
        tc == [present |-> TRUE, trigger |-> trigger, ch |-> NO_CHANNEL]
        hc == [present |-> TRUE, handler |-> 1, p_context |-> 0]
    IN  /\ irq.pc = "idle"
        /\ m_cb.state = "INITIALIZED"
        /\ m_cb.pin_flags[get_pin_idx(pin)] = PIN_FLAG_NOT_USED
        /\ \E r \in nrfx_gpiote_input_configure(S, pin, ic, tc, hc) :
              /\ m_cb' = r.s.cb
              /\ hw' = r.s.hw
              /\ call' = Called("input_configure", pin, r)
              /\ reg' = [reg EXCEPT ![pin] = Registered(pin, hc, r)]
        /\ ev' = Event("configure", pin)
        /\ UNCHANGED irq

\* nrfx_gpiote_trigger_enable(pin, true) on a pin whose sense is not armed yet
EnableTrigger(pin) ==
    LET s1 == nrfx_gpiote_trigger_enable(S, pin)
    IN  /\ irq.pc = "idle"
        /\ m_cb.state = "INITIALIZED"
        /\ pin_has_trigger(m_cb, pin)
        /\ hw.sense[pin] = "NOSENSE"
        /\ m_cb' = s1.cb
        /\ hw' = s1.hw
        /\ call' = Called("trigger_enable", pin, Ok(s1))
        /\ ev' = Event("enable", pin)
        /\ UNCHANGED <<irq, reg>>

\* the driver initialized, in either build, the pins at any levels
InitPort ==
    /\ m_cb = nrfx_gpiote_init([cb |-> InitCb, hw |-> InitHw(FALSE),
                                assert_failed |-> FALSE]).s.cb
    /\ hw \in {[InitHw(l) EXCEPT !.level = lv] : l \in BOOLEAN, lv \in [Pins -> BOOLEAN]}
    /\ irq = IrqIdle
    /\ call = [op |-> "init", pin |-> 0, err |-> "NRFX_SUCCESS", assert_failed |-> FALSE,
               fresh |-> FALSE]
    /\ reg = [p \in Pins |-> NoHandlerCfg]
    /\ ev = NoEvent

SenseTriggers == NRFX_GPIOTE_TRIGGER_LOTOHI .. NRFX_GPIOTE_TRIGGER_HIGH
EdgeTriggers == NRFX_GPIOTE_TRIGGER_LOTOHI .. NRFX_GPIOTE_TRIGGER_TOGGLE
LevelTriggers == {NRFX_GPIOTE_TRIGGER_LOW, NRFX_GPIOTE_TRIGGER_HIGH}

Configure == \E pin \in Pins, trigger \in SenseTriggers : ConfigurePortPin(pin, trigger)
Enable == \E pin \in Pins : EnableTrigger(pin)
PinChange == \E pin \in Pins : LevelChange(pin)

(***************************************************************************)
(* SpecRace: the PORT path with the pins free to change at every step.     *)
(* obs[p].flag: p went to the level its sense is armed for while the       *)
(* handler of another pin was running, has stayed there, and has not been  *)
(* processed since.  obs[p].caught: the step just taken processed p while  *)
(* it was flagged.                                                         *)
(***************************************************************************)
RaceObserver ==
    obs' = [p \in Pins |->
              IF ev'.kind = "level" /\ ev'.pin = p
              THEN [flag |-> irq.pc = "callback" /\ irq.pin # p /\ PinDetect(hw', p),
                    caught |-> FALSE]
              ELSE IF ev'.kind = "process" /\ ev'.pin = p
              THEN [flag |-> FALSE, caught |-> obs[p].flag]
              ELSE [obs[p] EXCEPT !.caught = FALSE]]

InitRace == InitPort /\ obs = [p \in Pins |-> [flag |-> FALSE, caught |-> FALSE]]

NextRace ==
    \/ Configure /\ RaceObserver
    \/ Enable /\ RaceObserver
    \/ PinChange /\ RaceObserver
    \/ IrqEnter /\ RaceObserver
    \/ PortStart /\ RaceObserver
    \/ ProcessPin /\ RaceObserver
    \/ CallbackReturn /\ RaceObserver
    \/ SweepDone /\ RaceObserver
    \/ ReadAndCheck /\ RaceObserver

SpecRace == InitRace /\ [][NextRace]_vars

(***************************************************************************)
(* SpecEdge: edge-triggered pins, each changing level at most MaxChanges   *)
(* times once armed.  obs[p]: seen, the level of p the driver knows (read  *)
(* by trigger_enable, then the level of the transition processed last);    *)
(* ups and downs, the pin's low-to-high and high-to-low changes since it   *)
(* was armed; nproc and n, how often next_sense_cond_call_handler ran for  *)
(* the pin and how often it called the handler.                            *)
(***************************************************************************)
EdgeObserver ==
    obs' = [p \in Pins |->
              IF ev'.pin # p THEN obs[p]
              ELSE IF ev'.kind = "enable"
              THEN [seen |-> hw.level[p], ups |-> 0, downs |-> 0, nproc |-> 0, n |-> 0]
              ELSE IF ev'.kind = "level"
              THEN IF hw'.level[p] THEN [obs[p] EXCEPT !.ups = @ + 1]
                   ELSE [obs[p] EXCEPT !.downs = @ + 1]
              ELSE IF ev'.kind = "process"
              THEN [obs[p] EXCEPT !.seen = (ev'.sense = "HIGH"),
                                  !.nproc = @ + 1,
                                  !.n = IF ev'.dispatched THEN @ + 1 ELSE @]
              ELSE obs[p]]

InitEdge ==
    /\ InitPort
    /\ obs = [p \in Pins |-> [seen |-> FALSE, ups |-> 0, downs |-> 0, nproc |-> 0, n |-> 0]]

ConfigureEdge == \E pin \in Pins, trigger \in EdgeTriggers : ConfigurePortPin(pin, trigger)

ArmedPinChange ==
    \E pin \in Pins :
        /\ hw.sense[pin] # "NOSENSE"
        /\ obs[pin].ups + obs[pin].downs < MaxChanges
        /\ LevelChange(pin)

NextEdge ==
    \/ ConfigureEdge /\ EdgeObserver
    \/ Enable /\ EdgeObserver
    \/ ArmedPinChange /\ EdgeObserver
    \/ IrqEnter /\ EdgeObserver
    \/ PortStart /\ EdgeObserver
    \/ ProcessPin /\ EdgeObserver
    \/ CallbackReturn /\ EdgeObserver
    \/ SweepDone /\ EdgeObserver
    \/ ReadAndCheck /\ EdgeObserver

SpecEdge == InitEdge /\ [][NextEdge]_vars

(***************************************************************************)
(* SpecLevel: level-triggered pins.  A pass is one turn of the do-loop of  *)
(* port_event_handle; it starts where the inputs (the latches) are read.   *)
(* obs[p]: held, p is armed and has been at its trigger level since the    *)
(* pass started; disp, its handler was called in this pass; again, it was  *)
(* held through the pass before, its handler called, and is held since;    *)
(* wasAt, p has been at its trigger level, armed, at some moment since it  *)
(* was armed or its handler returned last.                                 *)
(***************************************************************************)
LevelObserver ==
    obs' = [p \in Pins |->
              IF ev'.kind = "pass"
              THEN [obs[p] EXCEPT !.held = PinDetect(hw', p), !.disp = FALSE,
                                  !.again = obs[p].held /\ obs[p].disp]
              ELSE IF ev'.kind = "return"
              THEN [obs[p] EXCEPT !.held = FALSE, !.disp = FALSE, !.again = FALSE]
              ELSE IF ev'.pin # p THEN obs[p]
              ELSE IF ev'.kind = "level"
              THEN [obs[p] EXCEPT !.held = FALSE, !.again = FALSE,
                                  !.wasAt = @ \/ PinDetect(hw', p)]
              ELSE IF ev'.kind = "process" /\ ev'.dispatched
              THEN [obs[p] EXCEPT !.disp = TRUE]
              ELSE IF ev'.kind \in {"enable", "handled"}
              THEN [obs[p] EXCEPT !.wasAt = PinDetect(hw', p)]
              ELSE obs[p]]

InitLevel ==
    /\ InitPort
    /\ obs = [p \in Pins |-> [held |-> FALSE, disp |-> FALSE, again |-> FALSE,
                              wasAt |-> FALSE]]

ConfigureLevel == \E pin \in Pins, trigger \in LevelTriggers : ConfigurePortPin(pin, trigger)

NextLevel ==
    \/ ConfigureLevel /\ LevelObserver
    \/ Enable /\ LevelObserver
    \/ PinChange /\ LevelObserver
    \/ IrqEnter /\ LevelObserver
    \/ PortStart /\ LevelObserver
    \/ ProcessPin /\ LevelObserver
    \/ CallbackReturn /\ LevelObserver
    \/ SweepDone /\ LevelObserver
    \/ ReadAndCheck /\ LevelObserver

SpecLevel == InitLevel /\ [][NextLevel]_vars

(***************************************************************************)
(* Claims about the PORT-event path.                                       *)
(***************************************************************************)
\* what the trigger kind calls for when the pin has gone to the given level
calls_for(trigger, level) ==
    \/ trigger \in {NRFX_GPIOTE_TRIGGER_TOGGLE, NRFX_GPIOTE_TRIGGER_LOTOHI,
                    NRFX_GPIOTE_TRIGGER_HIGH} /\ level
    \/ trigger \in {NRFX_GPIOTE_TRIGGER_TOGGLE, NRFX_GPIOTE_TRIGGER_HITOLO,
                    NRFX_GPIOTE_TRIGGER_LOW} /\ ~level

\* C1: a pin that went to its armed sense level while another pin's handler ran,
\* and stayed there, is processed before port_event_handle returns - and its
\* handler called when its trigger kind calls for it - or the PORT event is
\* pending at the return; in the LATCH build and in the non-LATCH build.
C1_Step ==
    /\ ev'.kind = "return" => \A p \in Pins : obs'[p].flag => hw'.port_event
    /\ (ev'.kind = "process" /\ obs[ev'.pin].flag) =>
          ev'.dispatched = calls_for(ev'.trigger, hw.level[ev'.pin])


\* C1: on every step of the PORT path, in either build, a pin that went to its
\* armed level during another pin's handler is not dropped: it is processed
\* before port_event_handle returns, or the PORT event is pending at the return.
C1_PortPathRaceSafe == [][C1_Step]_vars

\* C1 witness: in the non-LATCH build a pin flagged during another pin's handler
\* has just been processed and its handler called
C1_Witness ==
    ~hw.latch_present /\ irq.pc = "callback" /\ obs[irq.pin].caught /\ ev.dispatched

\* the same in the LATCH build
C1_WitnessLatch ==
    hw.latch_present /\ irq.pc = "callback" /\ obs[irq.pin].caught /\ ev.dispatched

\* the dispatches a pin's trigger kind is due for its changes since it was armed
Due(trigger, o) ==
    IF trigger = NRFX_GPIOTE_TRIGGER_LOTOHI THEN o.ups
    ELSE IF trigger = NRFX_GPIOTE_TRIGGER_HITOLO THEN o.downs
    ELSE o.ups + o.downs

\* C5: on an edge-triggered software-sense pin every transition the engine
\* processes is a change of the level the driver knew, and the handler is called
\* if and only if the trigger is TOGGLE or the direction is the configured one;
\* the handler is never called more often than the pin made such changes, and as
\* often once every change has been processed (low, high, low on a LOTOHI pin:
\* exactly one call).
C5_Step ==
    ev'.kind = "process" =>
        LET old == obs[ev'.pin].seen
            new == ev'.sense = "HIGH"
        IN  /\ new # old
            /\ ev'.dispatched <=>
                  \/ ev'.trigger = NRFX_GPIOTE_TRIGGER_TOGGLE
                  \/ ev'.trigger = NRFX_GPIOTE_TRIGGER_LOTOHI /\ ~old /\ new
                  \/ ev'.trigger = NRFX_GPIOTE_TRIGGER_HITOLO /\ old /\ ~new

C5_Counts ==
    \A p \in Pins :
        hw.sense[p] # "NOSENSE" =>
            LET o == obs[p]
                trigger == m_cb.pin_flags[get_pin_idx(p)].trigger
            IN  /\ o.nproc <= o.ups + o.downs
                /\ o.n <= Due(trigger, o)
                /\ o.nproc = o.ups + o.downs => o.n = Due(trigger, o)


\* C5: every processed transition of an edge-triggered software-sense pin calls
\* the handler iff the trigger is TOGGLE or the direction is the configured one,
\* and the calls number the pin's changes in that direction once all are processed.
C5_EdgeTriggerCorrect == [][C5_Step]_vars /\ []C5_Counts

\* C5 witness: a LOTOHI pin went low, high, low, both changes were processed,
\* and its handler was called once
C5_Witness ==
    \E p \in Pins :
        /\ m_cb.pin_flags[get_pin_idx(p)].trigger = NRFX_GPIOTE_TRIGGER_LOTOHI
        /\ obs[p].ups = 1 /\ obs[p].downs = 1 /\ ~hw.level[p]
        /\ obs[p].nproc = 2 /\ obs[p].n = 1
        /\ irq.pc = "idle"

\* a pass ends with the handler of every pin held at its level called in it
C6_EveryPass == ev'.kind = "swept" => \A p \in Pins : obs[p].held => obs[p].disp

\* C6 (as claimed): a level-triggered pin held at its trigger level has its
\* handler called in every pass, and once the level has left the trigger level
\* the handler is not called any more.
C6_StepAsClaimed ==
    /\ C6_EveryPass
    /\ (ev'.kind = "process" /\ ev'.dispatched) =>
          hw.level[ev'.pin] = (ev'.trigger = NRFX_GPIOTE_TRIGGER_HIGH)


\* C6 (as claimed): a held level-triggered pin is dispatched in every pass, and
\* never while its level is away from the trigger level.
C6_LevelRearm == [][C6_StepAsClaimed]_vars

\* C6 (amended): a level-triggered pin held at its trigger level has its handler
\* called in every pass; the handler is called only if the pin has been at its
\* trigger level since its handler returned last (since it was armed), so after
\* the level has left at most the one call already decided from the inputs or
\* the latch read before follows.
C6_StepAmended ==
    /\ C6_EveryPass
    /\ (ev'.kind = "process" /\ ev'.dispatched) => obs[ev'.pin].wasAt


\* C6 (amended): a held level-triggered pin is dispatched in every pass, and
\* only if it has been at its trigger level since its handler returned last.
C6_LevelRearmUntilObserved == [][C6_StepAmended]_vars

\* C6 witness: a HIGH-triggered pin held high through two passes of one run of
\* the handler, in the non-LATCH build, its handler called in both
C6_Witness ==
    /\ ev.kind = "swept"
    /\ ~hw.latch_present
    /\ \E p \in Pins : /\ obs[p].held /\ obs[p].disp /\ obs[p].again
                       /\ m_cb.pin_flags[get_pin_idx(p)].trigger = NRFX_GPIOTE_TRIGGER_HIGH

\* the same in the LATCH build
C6_WitnessLatch ==
    /\ ev.kind = "swept"
    /\ hw.latch_present
    /\ \E p \in Pins : /\ obs[p].held /\ obs[p].disp /\ obs[p].again
                       /\ m_cb.pin_flags[get_pin_idx(p)].trigger = NRFX_GPIOTE_TRIGGER_HIGH

(***************************************************************************)
(* Claims about the handler registry.                                      *)
(***************************************************************************)
HasHandler(pin) == m_cb.pin_flags[pin].handler_present
SlotOf(pin) == m_cb.pin_flags[pin].handler_id
SlotFree(id) == id \in m_cb.available_evt_handlers

\* C2 (as claimed): two pins that registered the same (callback, context) pair
\* reference one slot, which is allocated and stores the pair; when one of two
\* sharing pins unregisters, the slot stays allocated with its pair; a slot goes
\* back to the pool only when no pin references it any more.
C2_SharedSlotState ==
    \A p, q \in Pins :
        (p # q /\ HasHandler(p) /\ HasHandler(q) /\ reg[p] = reg[q]) =>
            /\ SlotOf(p) = SlotOf(q)
            /\ ~SlotFree(SlotOf(p))
            /\ m_cb.handlers[SlotOf(p)] = reg[p]

C2_UnregisterStep ==
    /\ \A p, q \in Pins :
          (/\ p # q /\ HasHandler(p) /\ HasHandler(q) /\ SlotOf(p) = SlotOf(q)
           /\ ~HasHandler(p)' /\ HasHandler(q)' /\ SlotOf(q)' = SlotOf(q)
           /\ call'.op \in {"input_configure", "pin_uninit"})
          => /\ ~SlotFree(SlotOf(q))'
             /\ m_cb'.handlers[SlotOf(q)] = m_cb.handlers[SlotOf(q)]
    /\ \A id \in HandlerIds :
          (~SlotFree(id) /\ SlotFree(id)' /\ call'.op \in {"input_configure", "pin_uninit"})
          => ~handler_in_use(m_cb', id)


\* C2 (as claimed): pins with the same pair share one allocated slot, and the
\* slot is kept until the last of them unregisters.
C2_HandlerDedup == [](C2_SharedSlotState) /\ [][C2_UnregisterStep]_vars

\* C3 (as claimed): two distinct pins reference the same slot exactly when the
\* pairs they registered last are identical, and a slot stores the pair
\* registered by every pin that references it.
C3_ShareIffSamePair ==
    /\ \A p, q \in Pins :
          (p # q /\ HasHandler(p) /\ HasHandler(q)) =>
              ((SlotOf(p) = SlotOf(q)) <=> (reg[p] = reg[q]))
    /\ \A p \in Pins : HasHandler(p) => m_cb.handlers[SlotOf(p)] = reg[p]

\* C4 (as claimed): while the driver is initialized a slot is free exactly when
\* no pin references it, and the free in release_handler never fails its assertion.
C4_FreeIffUnreferenced ==
    /\ m_cb.state = "INITIALIZED" =>
          \A id \in HandlerIds : SlotFree(id) <=> ~handler_in_use(m_cb, id)
    /\ ~call.assert_failed

(***************************************************************************)
(* Claims about the pin records.                                           *)
(***************************************************************************)
Bound(cb, pin) == cb.pin_flags[pin].te_used
ChannelOf(cb, pin) == cb.pin_flags[pin].te_id
Exclusive(cb) ==
    \A p, q \in Pins :
        (p # q /\ Bound(cb, p) /\ Bound(cb, q)) => ChannelOf(cb, p) # ChannelOf(cb, q)
\* no record other than pin's holds channel ch
FreshFor(cb, pin, ch) ==
    \A q \in Pins : (q # pin /\ Bound(cb, q)) => ChannelOf(cb, q) # ch
\* pin's binding in cb2 is the one it had or the channel ch
KeptOrNamed(cb2, pin, ch) ==
    Bound(cb2, pin) =>
        \/ ChannelOf(cb2, pin) = ch
        \/ Bound(m_cb, pin) /\ ChannelOf(cb2, pin) = ChannelOf(m_cb, pin)
OthersKept(cb2, pin) ==
    \A q \in Pins : q # pin => cb2.pin_flags[q] = m_cb.pin_flags[q]

\* C7 (as claimed): after every completed call each pin record is all-default
\* or has in_use set.
C7_NoPartialRecord ==
    \A pin \in Pins : m_cb.pin_flags[pin] = PIN_FLAG_NOT_USED \/ m_cb.pin_flags[pin].in_use

\* C8 (as claimed): no two pin records are bound to the same channel index.
C8_ChannelExclusive == Exclusive(m_cb)

\* C8 (amended): the driver does not check the index it is given, but every call
\* leaves the other pins' records alone and binds to its pin no channel but the
\* one the caller named; so a call whose channel index is bound in no other pin's
\* record keeps the bindings exclusive.
C8_ExclusiveIfCallerPassesFreshChannel ==
    \A pin \in Pins :
        /\ \A ic \in InputCfgs, tc \in PinTriggerCfgs :
              \A r \in nrfx_gpiote_input_configure(S, pin, ic, tc, NoHandlerOpt) :
                  /\ OthersKept(r.s.cb, pin)
                  /\ KeptOrNamed(r.s.cb, pin, tc.ch)
                  /\ (Exclusive(m_cb) /\ FreshFor(m_cb, pin, tc.ch)) => Exclusive(r.s.cb)
        /\ \A oc \in OutputCfgs, kc \in TaskCfgs :
              LET r == nrfx_gpiote_output_configure(S, pin, oc, kc)
              IN  /\ OthersKept(r.s.cb, pin)
                  /\ KeptOrNamed(r.s.cb, pin, kc.task_ch)
                  /\ (Exclusive(m_cb) /\ (kc.present => FreshFor(m_cb, pin, kc.task_ch)))
                        => Exclusive(r.s.cb)
        /\ LET r == nrfx_gpiote_pin_uninit(S, pin)
           IN  OthersKept(r.s.cb, pin) /\ (Exclusive(m_cb) => Exclusive(r.s.cb))

\* C8 witness: both pins hold a channel, each its own, after a configure call
C8_Witness ==
    /\ call.op \in {"input_configure", "output_configure"}
    /\ call.err = "NRFX_SUCCESS"
    /\ \A p \in Pins : Bound(m_cb, p)
    /\ Exclusive(m_cb)

\* C9 (as claimed): configure_input on an unused pin that returned success,
\* followed by pin_uninit on that pin, leaves the record all-default.
C9_Step ==
    (/\ call.op = "input_configure" /\ call.fresh /\ call.err = "NRFX_SUCCESS"
     /\ call'.op = "pin_uninit" /\ call'.pin = call.pin)
    => m_cb'.pin_flags[call.pin] = PIN_FLAG_NOT_USED


\* C9 (as claimed): a successful configure_input on an unused pin followed by
\* pin_uninit on it always gives back the all-default record.
C9_ConfigureUninitRoundTrip == [][C9_Step]_vars

\* C10: configure_output on an input pin bound to an event channel returns
\* NRFX_ERROR_INVALID_PARAM and changes nothing in the pin table.
C10_Step ==
    (/\ call'.op = "output_configure"
     /\ pin_is_input(m_cb, call'.pin) /\ pin_in_use_by_te(m_cb, call'.pin))
    => /\ call'.err = "NRFX_ERROR_INVALID_PARAM"
       /\ m_cb' = m_cb


\* C10: every configure_output on an input pin bound to an event channel is
\* rejected with NRFX_ERROR_INVALID_PARAM and leaves the pin table as it was.
C10_OutputOnEventPinRejected == [][C10_Step]_vars

C10_Witness ==
    /\ call.op = "output_configure"
    /\ call.err = "NRFX_ERROR_INVALID_PARAM"
    /\ m_cb.pin_flags[call.pin].in_use
    /\ pin_is_input(m_cb, call.pin) /\ pin_in_use_by_te(m_cb, call.pin)

(***************************************************************************)
(* SpecGlobal: pins on the PORT event and pins on channels, with or        *)
(* without a handler of their own, and the global handler set, replaced    *)
(* and cleared.  obs.last is the pair passed to the latest                 *)
(* nrfx_gpiote_global_callback_set, obs.replaced whether that call         *)
(* replaced another callback.  The pins change level while the interrupt   *)
(* handler is not running.                                                 *)
(***************************************************************************)
\* no pin record holds channel ch
FreshChannel(cb, ch) ==
    \A q \in Pins : ~(pin_in_use_by_te(cb, q) /\ pin_te_get(cb, q) = ch)

GlobalCallbackSet ==
    \E g \in [handler : {NULL, 1, 2}, p_context : {1}] :
        LET s1 == nrfx_gpiote_global_callback_set(S, g.handler, g.p_context)
        IN  /\ irq.pc = "idle"
            /\ m_cb' = s1.cb
            /\ hw' = s1.hw
            /\ call' = Called("global_callback_set", 0, Ok(s1))
            /\ obs' = [last |-> g,
                       replaced |-> /\ g.handler # NULL
                                    /\ obs.last.handler \notin {NULL, g.handler}]
            /\ UNCHANGED <<irq, reg, ev>>

\* an unused pin becomes an input with a rising-edge trigger, on the PORT event
\* or on a channel no other pin holds, with or without a handler of its own
ConfigureGlobalPin ==
    \E pin \in Pins : \E ch \in {pin, NO_CHANNEL}, handler \in {NULL, 1} :
        LET ic == [present |-> TRUE]
            tc == [present |-> TRUE, trigger |-> NRFX_GPIOTE_TRIGGER_LOTOHI, ch |-> ch]
            hc == [present |-> TRUE, handler |-> handler, p_context |-> 0]
        IN  /\ irq.pc = "idle"
            /\ m_cb.state = "INITIALIZED"
            /\ m_cb.pin_flags[get_pin_idx(pin)] = PIN_FLAG_NOT_USED
            /\ ch # NO_CHANNEL => ch \in Channels /\ FreshChannel(m_cb, ch)
            /\ \E r \in nrfx_gpiote_input_configure(S, pin, ic, tc, hc) :
                  /\ m_cb' = r.s.cb
                  /\ hw' = r.s.hw
                  /\ call' = Called("input_configure", pin, r)
                  /\ reg' = [reg EXCEPT ![pin] = Registered(pin, hc, r)]
            /\ ev' = Event("configure", pin)
            /\ UNCHANGED <<irq, obs>>

InitGlobal ==
    /\ m_cb = nrfx_gpiote_init([cb |-> InitCb, hw |-> InitHw(FALSE),
                                assert_failed |-> FALSE]).s.cb
    /\ hw = [InitHw(FALSE) EXCEPT !.te_model = TRUE]
    /\ irq = IrqIdle
    /\ call = [op |-> "init", pin |-> 0, err |-> "NRFX_SUCCESS", assert_failed |-> FALSE,
               fresh |-> FALSE]
    /\ reg = [p \in Pins |-> NoHandlerCfg]
    /\ ev = NoEvent
    /\ obs = [last |-> NoHandlerCfg, replaced |-> FALSE]

NextGlobal ==
    \/ GlobalCallbackSet
    \/ ConfigureGlobalPin
    \/ Enable /\ UNCHANGED obs
    \/ irq.pc = "idle" /\ PinChange /\ UNCHANGED obs
    \/ IrqEnter /\ UNCHANGED obs
    \/ PortStart /\ UNCHANGED obs
    \/ ProcessPin /\ UNCHANGED obs
    \/ CallbackReturn /\ UNCHANGED obs
    \/ SweepDone /\ UNCHANGED obs
    \/ ReadAndCheck /\ UNCHANGED obs
    \/ EvtHandle /\ UNCHANGED obs

SpecGlobal == InitGlobal /\ [][NextGlobal]_vars

(***************************************************************************)
(* SpecChannels: the channel pool over the driver's life.  obs.held is the *)
(* sequence of channels that successful nrfx_gpiote_channel_alloc calls    *)
(* returned and that were not freed since, oldest first; obs.allocs counts *)
(* the successful allocations.  call.pin holds the channel of the call.    *)
(***************************************************************************)
MaxAllocs == 4

ChannelAlloc ==
    \E r \in nrfx_gpiote_channel_alloc(S) :
        /\ obs.allocs < MaxAllocs
        /\ m_cb' = r.s.cb
        /\ call' = Called("channel_alloc", r.channel, r)
        /\ obs' = IF r.err = "NRFX_SUCCESS"
                  THEN [held |-> Append(obs.held, r.channel), allocs |-> obs.allocs + 1]
                  ELSE obs
        /\ UNCHANGED <<hw, irq, reg, ev>>

ChannelFree ==
    \E channel \in Channels :
        LET r == nrfx_gpiote_channel_free(S, channel)
        IN  /\ m_cb' = r.s.cb
            /\ call' = Called("channel_free", channel, r)
            /\ obs' = IF r.err = "NRFX_SUCCESS"
                      THEN [obs EXCEPT !.held = SelectSeq(@, LAMBDA c : c # channel)]
                      ELSE obs
            /\ UNCHANGED <<hw, irq, reg, ev>>

InitChannels ==
    /\ m_cb = InitCb
    /\ hw = InitHw(FALSE)
    /\ irq = IrqIdle
    /\ call = [op |-> "reset", pin |-> 0, err |-> "NRFX_SUCCESS", assert_failed |-> FALSE,
               fresh |-> FALSE]
    /\ reg = [p \in Pins |-> NoHandlerCfg]
    /\ ev = NoEvent
    /\ obs = [held |-> <<>>, allocs |-> 0]

NextChannels == DriverInit \/ DriverUninit \/ ChannelAlloc \/ ChannelFree

SpecChannels == InitChannels /\ [][NextChannels]_vars

(***************************************************************************)
(* SpecLife: the driver's life cycle with handlers registered, with and    *)
(* without the input block, for two callbacks.  obs[p].torn: the latest    *)
(* nrfx_gpiote_uninit found pin p in use and holding a handler slot.       *)
(***************************************************************************)
LifeHandlerCfgs ==
    {NoHandlerOpt} \cup [present : {TRUE}, handler : {NULL, 1, 2}, p_context : {0}]

LifeRegister ==
    \E pin \in Pins, ic \in InputCfgs, hc \in LifeHandlerCfgs :
        InputConfigureCall(pin, ic, NoTrigger, hc)

LifeUninit ==
    LET s1 == nrfx_gpiote_uninit(S)
    IN  /\ irq.pc = "idle"
        /\ m_cb.state # "UNINITIALIZED"
        /\ m_cb' = s1.cb
        /\ hw' = s1.hw
        /\ call' = Called("uninit", 0, Ok(s1))
        /\ reg' = [p \in Pins |-> IF s1.cb.pin_flags[p].handler_present
                                  THEN reg[p] ELSE NoHandlerCfg]
        /\ obs' = [p \in Pins |->
                      [torn |-> pin_in_use(m_cb, p) /\ m_cb.pin_flags[p].handler_present]]
        /\ UNCHANGED <<irq, ev>>

InitLife ==
    /\ m_cb = InitCb
    /\ hw = InitHw(FALSE)
    /\ irq = IrqIdle
    /\ call = [op |-> "reset", pin |-> 0, err |-> "NRFX_SUCCESS", assert_failed |-> FALSE,
               fresh |-> FALSE]
    /\ reg = [p \in Pins |-> NoHandlerCfg]
    /\ ev = NoEvent
    /\ obs = [p \in Pins |-> [torn |-> FALSE]]

NextLife == DriverInit \/ LifeUninit \/ LifeRegister \/ PinUninit

SpecLife == InitLife /\ [][NextLife]_vars

(***************************************************************************)
(* SpecSlots: two pins of a driver whose other pins hold all the handler   *)
(* slots but one.  The pins are configured with input, trigger and handler *)
(* blocks in any combination, the trigger a rising edge with or without a  *)
(* channel, and with all three blocks where the trigger block asks for a   *)
(* level on a channel; they are uninitialized.  obs[p].ch is the channel   *)
(* that the latest trigger block applied to p bound, obs[p].ok the channel *)
(* bound by the latest such call that also returned NRFX_SUCCESS; both are *)
(* dropped with the record's binding.                                      *)
(***************************************************************************)
\* the control block after init and after pins outside Pins took the slots in
\* taken, each with a pair of its own, of a callback that no pin in Pins registers
OthersHold(taken) ==
    LET cb == nrfx_gpiote_init([cb |-> InitCb, hw |-> InitHw(FALSE),
                                assert_failed |-> FALSE]).s.cb
        OtherCallback == NumCallbacks + 1
    IN  [cb EXCEPT !.available_evt_handlers = @ \ taken,
                   !.handlers = [i \in HandlerIds |->
                                    IF i \in taken
                                    THEN [handler |-> OtherCallback, p_context |-> i]
                                    ELSE @[i]]]

\* the trigger block of the call was applied and bound the channel of tc
AppliesEvent(tc, r) ==
    /\ r.err # "NRFX_ERROR_INVALID_PARAM"
    /\ tc.present /\ tc.ch # NO_CHANNEL /\ tc.trigger # NRFX_GPIOTE_TRIGGER_NONE

SlotsObserver(cb, o) ==
    [p \in Pins |-> IF pin_in_use_by_te(cb, p) THEN o[p]
                    ELSE [ch |-> NO_CHANNEL, ok |-> NO_CHANNEL]]

SlotsInputConfigure ==
    \E pin \in Pins, ic \in InputCfgs, hc \in LifeHandlerCfgs,
       tc \in {NoTrigger} \cup
              [present : {TRUE}, trigger : {NRFX_GPIOTE_TRIGGER_LOTOHI},
               ch : {c \in Channels : c <= 1} \cup {NO_CHANNEL}] \cup
              [present : {TRUE}, trigger : {NRFX_GPIOTE_TRIGGER_HIGH}, ch : {0}] :
        /\ ic.present \/ tc.present \/ hc.present
        /\ is_level(tc.trigger) => ic.present /\ hc.present
        /\ \E r \in nrfx_gpiote_input_configure(S, pin, ic, tc, hc) :
              /\ m_cb' = r.s.cb
              /\ hw' = r.s.hw
              /\ call' = Called("input_configure", pin, r)
              /\ reg' = [reg EXCEPT ![pin] = Registered(pin, hc, r)]
              /\ obs' = SlotsObserver(r.s.cb,
                            [obs EXCEPT ![pin] =
                                [ch |-> IF AppliesEvent(tc, r) THEN tc.ch ELSE @.ch,
                                 ok |-> IF BindsEvent(tc, r) THEN tc.ch ELSE @.ok]])
        /\ UNCHANGED <<irq, ev>>

SlotsPinUninit ==
    \E pin \in Pins :
        LET r == nrfx_gpiote_pin_uninit(S, pin)
        IN  /\ m_cb' = r.s.cb
            /\ hw' = r.s.hw
            /\ call' = Called("pin_uninit", pin, r)
            /\ reg' = [reg EXCEPT ![pin] = IF r.err = "NRFX_SUCCESS" THEN NoHandlerCfg
                                           ELSE @]
            /\ obs' = SlotsObserver(r.s.cb, obs)
            /\ UNCHANGED <<irq, ev>>

InitSlots ==
    /\ m_cb = OthersHold(HandlerIds \ {0})
    /\ hw = InitHw(FALSE)
    /\ irq = IrqIdle
    /\ call = [op |-> "init", pin |-> 0, err |-> "NRFX_SUCCESS", assert_failed |-> FALSE,
               fresh |-> FALSE]
    /\ reg = [p \in Pins |-> NoHandlerCfg]
    /\ ev = NoEvent
    /\ obs = [p \in Pins |-> [ch |-> NO_CHANNEL, ok |-> NO_CHANNEL]]

NextSlots == SlotsInputConfigure \/ SlotsPinUninit

SpecSlots == InitSlots /\ [][NextSlots]_vars

(***************************************************************************)
(* C11: direction and kind of channel use.                                 *)
(***************************************************************************)
C11_Kind ==
    \A p \in Pins :
        Bound(m_cb, p) =>
            \/ pin_is_output(m_cb, p) /\ obs[p].kind = "task"
            \/ pin_is_input(m_cb, p) /\ obs[p].kind = "event"

C11_Step ==
    \A p \in Pins :
        (Bound(m_cb, p) /\ pin_is_output(m_cb', p) # pin_is_output(m_cb, p))
            => call'.op \in {"pin_uninit", "uninit"}

C11_Rejects ==
    \A p \in Pins :
        /\ pin_is_task_output(m_cb, p) =>
              \A tc \in PinTriggerCfgs \cup {NoTrigger} :
                  \A r \in nrfx_gpiote_input_configure(S, p, [present |-> TRUE], tc,
                                                       NoHandlerOpt) :
                      r.err = "NRFX_ERROR_INVALID_PARAM" /\ r.s.cb = m_cb
        /\ (Bound(m_cb, p) /\ pin_is_input(m_cb, p)) =>
              \A oc \in OutputCfgs \ {NoOutput}, kc \in TaskCfgs :
                  LET r == nrfx_gpiote_output_configure(S, p, oc, kc)
                  IN  r.err = "NRFX_ERROR_INVALID_PARAM" /\ r.s.cb = m_cb

\* C11: a pin bound to a channel is an output whose channel was configured as a
\* task or an input whose channel was configured as an event; only pin_uninit
\* (alone or in the driver-wide uninit) changes the direction of a bound pin;
\* configure_input with input_opts on a task-output pin and configure_output
\* with output_opts on an event-bound input pin return InvalidParam.
C11_DirectionKindExclusive == []C11_Kind /\ [][C11_Step]_vars /\ []C11_Rejects

\* one pin is a task output, the other an event input, and a configure_input
\* on the task output has just been refused
C11_Witness ==
    \E p, q \in Pins :
        /\ pin_is_task_output(m_cb, p) /\ obs[p].kind = "task"
        /\ Bound(m_cb, q) /\ pin_is_input(m_cb, q) /\ obs[q].kind = "event"
        /\ call.op = "input_configure" /\ call.pin = p
        /\ call.err = "NRFX_ERROR_INVALID_PARAM"

(***************************************************************************)
(* C12: the global handler.                                                *)
(***************************************************************************)
Invoke(cfg, pin, trigger) ==
    IF cfg.handler = NULL THEN <<>>
    ELSE <<[handler |-> cfg.handler, pin |-> pin, trigger |-> trigger,
            p_context |-> cfg.p_context]>>

\* the step calls the handlers: from the PORT path or from gpiote_evt_handle
Dispatches ==
    \/ irq.pc = "sweep" /\ irq'.pc = "callback"
    \/ irq.pc = "events" /\ irq'.evt_mask # irq.evt_mask

C12_Step ==
    Dispatches =>
        ev'.calls = Invoke(reg[ev'.pin], ev'.pin, ev'.trigger)
                    \o Invoke(obs.last, ev'.pin, ev'.trigger)

\* C12: every dispatch, from the PORT path or from a channel, calls the pin's
\* registered handler if it has one and then, exactly once and with the same
\* pin and trigger, the callback passed to the latest global_callback_set if
\* that was not NULL; a pin without a handler gets the global handler alone.
C12_GlobalHandler == [][C12_Step]_vars

\* a channel event was dispatched to the pin's handler and then to a global
\* handler that had replaced another one
C12_Witness ==
    /\ ev.kind = "channel" /\ Len(ev.calls) = 2
    /\ obs.replaced /\ ev.calls[2].handler = obs.last.handler
    /\ ev.calls[1].handler = reg[ev.pin].handler

\* a PORT event of a pin without a handler was dispatched to such a global handler
C12_WitnessPort ==
    /\ ev.kind = "process" /\ ev.dispatched /\ Len(ev.calls) = 1
    /\ reg[ev.pin].handler = NULL
    /\ obs.replaced /\ ev.calls[1].handler = obs.last.handler

(***************************************************************************)
(* C13: the channel allocator.                                             *)
(***************************************************************************)
Held == {obs.held[i] : i \in 1..Len(obs.held)}

\* the pool is the original mask less the channels handed out and not freed,
\* and an empty pool refuses
C13_Pool ==
    /\ m_cb.available_channels_mask = InitCb.available_channels_mask \ Held
    /\ Cardinality(Held) = Len(obs.held)
    /\ m_cb.available_channels_mask = {} =>
          \A r \in nrfx_gpiote_channel_alloc(S) :
              r.err = "NRFX_ERROR_NO_MEM" /\ r.s.cb = m_cb

C13_Step ==
    /\ (call'.op = "channel_alloc" /\ call'.err = "NRFX_SUCCESS" /\ obs' # obs) =>
          /\ call'.pin \notin Held
          /\ call'.pin \in m_cb.available_channels_mask
    /\ (call'.op = "channel_alloc" /\ call'.err # "NRFX_SUCCESS") =>
          /\ call'.err = "NRFX_ERROR_NO_MEM"
          /\ m_cb.available_channels_mask = {}
          /\ m_cb' = m_cb

\* C13: the channels returned by successful channel_alloc calls and not freed
\* since are pairwise distinct; once all of them are freed, in whatever order,
\* the pool is its original mask; channel_alloc on an empty pool returns
\* NRFX_ERROR_NO_MEM and leaves the pool as it was.
C13_ChannelAllocator == []C13_Pool /\ [][C13_Step]_vars

\* every channel was handed out and all of them were freed again, channel 1 last
C13_Witness ==
    /\ obs.allocs >= GPIOTE_CH_NUM
    /\ obs.held = <<>>
    /\ call.op = "channel_free" /\ call.err = "NRFX_SUCCESS" /\ call.pin = 1
    /\ m_cb.available_channels_mask = InitCb.available_channels_mask

\* channel_alloc has just been refused on the empty pool
C13_WitnessExhausted ==
    /\ call.op = "channel_alloc" /\ call.err = "NRFX_ERROR_NO_MEM"
    /\ Len(obs.held) = GPIOTE_CH_NUM

(***************************************************************************)
(* C14: the driver's life cycle.                                           *)
(***************************************************************************)
AllDefault(cb) ==
    /\ \A p \in Pins : cb.pin_flags[p] = PIN_FLAG_NOT_USED
    /\ cb.available_evt_handlers = HandlerIds

C14_Step ==
    call'.op = "init" =>
        IF m_cb.state = "UNINITIALIZED"
        THEN /\ call'.err = "NRFX_SUCCESS"
             /\ m_cb'.state = "INITIALIZED"
             /\ AllDefault(m_cb')
        ELSE /\ call'.err = "NRFX_ERROR_INVALID_STATE"
             /\ m_cb' = m_cb /\ hw' = hw

C14_AfterUninit ==
    call.op = "uninit" =>
        /\ m_cb.state = "UNINITIALIZED"
        /\ LET r == nrfx_gpiote_init(S)
           IN  r.err = "NRFX_SUCCESS" /\ r.s.cb.state = "INITIALIZED" /\ AllDefault(r.s.cb)

\* C14: init succeeds exactly from the uninitialized state and then leaves every
\* pin record all-default and every handler slot in the pool; init on the
\* initialized driver returns NRFX_ERROR_INVALID_STATE and changes nothing;
\* after uninit, init succeeds again.
C14_Lifecycle == [][C14_Step]_vars /\ []C14_AfterUninit

\* init has just been refused while a pin in use holds a handler slot
C14_Witness ==
    /\ call.op = "init" /\ call.err = "NRFX_ERROR_INVALID_STATE"
    /\ \E p \in Pins : HasHandler(p) /\ pin_in_use(m_cb, p)
    /\ m_cb.available_evt_handlers # HandlerIds

\* init has just succeeded in a later life of the driver
C14_WitnessReinit ==
    /\ call.op = "init" /\ call.err = "NRFX_SUCCESS"
    /\ AllDefault(m_cb)
    /\ \E i \in HandlerIds : m_cb.handlers[i].handler # NULL

(***************************************************************************)
(* C15: the driver-wide uninit.                                            *)
(***************************************************************************)
\* slot id is referenced, and only by pins that are in use
OnlyInUseRefs(cb, id) ==
    /\ \E p \in Pins : cb.pin_flags[p].handler_present /\ cb.pin_flags[p].handler_id = id
    /\ \A p \in Pins :
          (cb.pin_flags[p].handler_present /\ cb.pin_flags[p].handler_id = id)
              => pin_in_use(cb, p)

C15_Step ==
    call'.op = "uninit" =>
        /\ m_cb'.state = "UNINITIALIZED"
        /\ \A p \in Pins :
              /\ ~pin_in_use(m_cb', p)
              /\ pin_in_use(m_cb, p) => m_cb'.pin_flags[p] = PIN_FLAG_NOT_USED
        /\ \A id \in HandlerIds :
              OnlyInUseRefs(m_cb, id) => id \in m_cb'.available_evt_handlers

\* C15: when nrfx_gpiote_uninit returns, the driver is uninitialized, no pin is
\* in use, every pin that was in use has an all-default record and every
\* handler slot that only such pins referenced is back in the pool.
C15_UninitTearsDown == [][C15_Step]_vars

\* uninit has just torn down the pins, all in use and holding handler slots
C15_Witness ==
    /\ call.op = "uninit" /\ ~call.assert_failed
    /\ m_cb.state = "UNINITIALIZED"
    /\ \A p \in Pins : obs[p].torn
    /\ \A p \in Pins : m_cb.pin_flags[p] = PIN_FLAG_NOT_USED /\ reg[p] = NoHandlerCfg
    /\ m_cb.available_evt_handlers = HandlerIds
    /\ \A i \in HandlerIds : m_cb.handlers[i].handler = NULL

(***************************************************************************)
(* C16: pin_uninit on a pin that is not in use.                            *)
(***************************************************************************)
C16_Refused ==
    \A p \in Pins :
        ~pin_in_use(m_cb, p) =>
            LET r == nrfx_gpiote_pin_uninit(S, p)
            IN  r.err = "NRFX_ERROR_INVALID_PARAM" /\ r.s = S

C16_Step ==
    (call'.op = "pin_uninit" /\ ~pin_in_use(m_cb, call'.pin)) =>
        /\ call'.err = "NRFX_ERROR_INVALID_PARAM"
        /\ m_cb' = m_cb /\ hw' = hw

\* C16: pin_uninit on a pin whose record is not in use returns
\* NRFX_ERROR_INVALID_PARAM and leaves the control block (records, handlers,
\* pool, port_pins) and the peripheral as they were.
C16_PinUninitNotInUse == []C16_Refused /\ [][C16_Step]_vars

\* pin_uninit has just been refused on a pin that is not in use but whose
\* record holds a trigger and a place in port_pins
C16_Witness ==
    /\ call.op = "pin_uninit" /\ call.err = "NRFX_ERROR_INVALID_PARAM"
    /\ ~pin_in_use(m_cb, call.pin)
    /\ pin_has_trigger(m_cb, call.pin)
    /\ call.pin \in m_cb.port_pins

(***************************************************************************)
(* C17: channel_get.                                                       *)
(***************************************************************************)
\* channel_get answers for the record's binding, with the channel last
C17_Get(last) ==
    \A p \in Pins :
        LET g == nrfx_gpiote_channel_get(S, p)
        IN  /\ g.err = "NRFX_SUCCESS" <=> Bound(m_cb, p)
            /\ g.err # "NRFX_SUCCESS" => g.err = "NRFX_ERROR_INVALID_PARAM"
            /\ g.err = "NRFX_SUCCESS" => g.channel = last[p]

\* after a successful pin_uninit channel_get is refused
C17_Step ==
    (call'.op = "pin_uninit" /\ call'.err = "NRFX_SUCCESS") =>
        nrfx_gpiote_channel_get([cb |-> m_cb', hw |-> hw', assert_failed |-> FALSE],
                                call'.pin).err = "NRFX_ERROR_INVALID_PARAM"

\* C17 (as claimed): channel_get returns Ok exactly when the record has a
\* binding, with the channel most recently bound by a configure call that
\* returned success, and InvalidParam otherwise, as after pin_uninit.
C17_ChannelGet == [](C17_Get([p \in Pins |-> obs[p].ok])) /\ [][C17_Step]_vars

\* C17 (amended): the channel is the one most recently bound by a trigger
\* block that was applied, whether or not the call's handler block then
\* failed with NRFX_ERROR_NO_MEM.
C17_ChannelGetApplied == [](C17_Get([p \in Pins |-> obs[p].ch])) /\ [][C17_Step]_vars

\* a call bound the pin to a channel and then failed for want of a handler
\* slot; channel_get reports that channel
C17_Witness ==
    /\ call.op = "input_configure" /\ call.err = "NRFX_ERROR_NO_MEM"
    /\ Bound(m_cb, call.pin)
    /\ obs[call.pin].ch # obs[call.pin].ok
    /\ nrfx_gpiote_channel_get(S, call.pin) =
           [err |-> "NRFX_SUCCESS", channel |-> obs[call.pin].ch]

(***************************************************************************)
(* C18: a channel for an input's edge trigger only.                        *)
(***************************************************************************)
\* a trigger block naming a channel is refused if it asks for a level or if the
\* pin is an output when the block is reached, that is after the input block
C18_Rejects ==
    \A p \in Pins, ic \in InputCfgs, tc \in PinTriggerCfgs :
        LET r1 == input_configure_input(S, p, ic)
        IN  (/\ tc.ch # NO_CHANNEL
             /\ \/ is_level(tc.trigger)
                \/ r1.err # "NRFX_SUCCESS"
                \/ pin_is_output(r1.s.cb, p))
            => \A r \in nrfx_gpiote_input_configure(S, p, ic, tc, NoHandlerOpt) :
                   r.err = "NRFX_ERROR_INVALID_PARAM"

C18_EventPins ==
    \A p \in Pins :
        (Bound(m_cb, p) /\ obs[p].kind = "event") =>
            /\ pin_is_input(m_cb, p)
            /\ m_cb.pin_flags[p].trigger \in EdgeTriggers

C19_Rejects ==
    \A p \in Pins, kc \in TaskCfgs :
        pin_has_trigger(m_cb, p) =>
            LET r == nrfx_gpiote_output_configure(
                         S, p, [present |-> TRUE, input_connect |-> FALSE], kc)
            IN  /\ r.err = "NRFX_ERROR_INVALID_PARAM"
                /\ r.s.cb.pin_flags[p] = m_cb.pin_flags[p]

C19_NoDisconnectedTrigger ==
    \A p \in Pins :
        ~(/\ pin_is_output(m_cb, p)
          /\ pin_has_trigger(m_cb, p)
          /\ ~hw.input_connect[p])

\* C19: configure_output with output_opts that disconnect the input buffer is
\* refused with InvalidParam, the record unchanged, whenever the pin has a
\* trigger; no output pin has a trigger and a disconnected input buffer.
C19_TriggerKeepsInputConnected == []C19_Rejects /\ []C19_NoDisconnectedTrigger

(***************************************************************************)
(* C20: exhaustion of the handler slots.                                   *)
(***************************************************************************)
\* pin's slot goes back to the pool when pin lets go of it
OwnSlotFreed(pin) ==
    /\ HasHandler(pin)
    /\ \A q \in Pins \ {pin} : ~(HasHandler(q) /\ SlotOf(q) = SlotOf(pin))

\* the slots that store the pair once pin has let go of its own
StoredAfterRelease(pin, hc) ==
    {i \in HandlerIds :
        /\ m_cb.handlers[i] = [handler |-> hc.handler, p_context |-> hc.p_context]
        /\ ~(OwnSlotFreed(pin) /\ i = SlotOf(pin))}

PoolAfterRelease(pin) ==
    m_cb.available_evt_handlers \cup (IF OwnSlotFreed(pin) THEN {SlotOf(pin)} ELSE {})

C20_Registration ==
    \A pin \in Pins, hc \in LifeHandlerCfgs :
        (hc.present /\ hc.handler # NULL) =>
            \A r \in nrfx_gpiote_input_configure(S, pin, NoInput, NoTrigger, hc) :
                /\ r.err = "NRFX_ERROR_NO_MEM" <=>
                       (StoredAfterRelease(pin, hc) = {} /\ PoolAfterRelease(pin) = {})
                /\ r.err # "NRFX_ERROR_NO_MEM" => r.err = "NRFX_SUCCESS"
                /\ StoredAfterRelease(pin, hc) # {} =>
                       /\ r.s.cb.available_evt_handlers = PoolAfterRelease(pin)
                       /\ r.s.cb.pin_flags[pin].handler_present
                       /\ r.s.cb.pin_flags[pin].handler_id \in StoredAfterRelease(pin, hc)

\* C20: registering a non-null callback fails, with NRFX_ERROR_NO_MEM, exactly
\* when, the pin's own binding released, no slot stores the pair and the pool
\* is empty; a pair that is stored is registered without allocating, the pool
\* empty or not.
C20_ExhaustedIffNoSlot == []C20_Registration

\* the pool is empty and the pins share a slot: the call that registered the
\* second of them found the pair stored and took nothing from the pool
C20_Witness ==
    /\ m_cb.available_evt_handlers = {}
    /\ call.op = "input_configure" /\ call.err = "NRFX_SUCCESS"
    /\ \A p \in Pins : HasHandler(p) /\ SlotOf(p) = SlotOf(call.pin)
    /\ \A p \in Pins : reg[p] = reg[call.pin] /\ reg[p].handler # NULL

\* a registration has just failed for want of a slot
C20_WitnessExhausted ==
    /\ call.op = "input_configure" /\ call.err = "NRFX_ERROR_NO_MEM"
    /\ m_cb.available_evt_handlers = {}
    /\ \E p \in Pins \ {call.pin} : HasHandler(p)

(***************************************************************************)
(* SpecTe: input pins on event channels and on the PORT event, configured, *)
(* and reconfigured by the application at any time outside the interrupt   *)
(* handler, the triggers of the pins on channels enabled and disabled,     *)
(* with the channel registers followed.  A pin whose channel is in event   *)
(* mode changes level while the handler is not running.                    *)
(***************************************************************************)
NextTe ==
    \/ \E pin \in Pins, ic \in InputCfgs,
          tc \in {NoTrigger} \cup
                 [present : {TRUE},
                  trigger : {NRFX_GPIOTE_TRIGGER_NONE, NRFX_GPIOTE_TRIGGER_LOTOHI},
                  ch : Channels \cup {NO_CHANNEL}] :
          /\ ic.present # tc.present
          /\ ic.present <=> ~pin_in_use(m_cb, pin)
          /\ InputConfigureCall(pin, ic, tc, NoHandlerOpt)
    \/ \E pin \in Pins :
          /\ pin_in_use_by_te(m_cb, pin)
          /\ EnableTrigger(pin)
          /\ UNCHANGED obs
    \/ \E pin \in Pins :
          LET s1 == nrfx_gpiote_trigger_disable(S, pin)
          IN  /\ irq.pc = "idle"
              /\ pin_in_use_by_te(m_cb, pin)
              /\ m_cb' = s1.cb
              /\ hw' = s1.hw
              /\ call' = Called("trigger_disable", pin, Ok(s1))
              /\ UNCHANGED <<irq, reg, ev, obs>>
    \/ \E pin \in Pins :
          /\ irq.pc = "idle"
          /\ \E c \in Channels : hw.te[c].mode = "event" /\ hw.te[c].pin = pin
          /\ LevelChange(pin)
          /\ UNCHANGED obs
    \/ IrqEnter /\ UNCHANGED obs
    \/ EvtHandle /\ UNCHANGED obs

SpecTe == InitGlobal /\ [][NextTe]_vars

(***************************************************************************)
(* C21: trigger NONE on an input pin that holds an event channel.          *)
(***************************************************************************)
C21_Reset ==
    \A p \in Pins, ch \in Channels \cup {NO_CHANNEL} :
        (pin_in_use(m_cb, p) /\ pin_is_input(m_cb, p) /\ Bound(m_cb, p)) =>
            \A r \in nrfx_gpiote_input_configure(
                         S, p, NoInput,
                         [present |-> TRUE, trigger |-> NRFX_GPIOTE_TRIGGER_NONE, ch |-> ch],
                         NoHandlerOpt) :
                /\ r.err = "NRFX_SUCCESS"
                /\ ~Bound(r.s.cb, p)
                /\ r.s.hw.te[ChannelOf(m_cb, p)] = TeDefault

\* C21: configure_input with trigger NONE on an input pin bound to an event
\* channel clears the pin's binding and leaves that channel at its hardware
\* default, whether the request names that channel, another one or none.
C21_NoneResetsBoundChannel == []C21_Reset

(***************************************************************************)
(* C22: pin_uninit and the pins watched through the PORT event.            *)
(***************************************************************************)
C22_Step ==
    (call'.op = "pin_uninit" /\ call'.err = "NRFX_SUCCESS") =>
        call'.pin \notin m_cb'.port_pins

\* C22: after a successful pin_uninit the pin is not in port_pins (the build
\* without LATCH), whatever calls configured it before.
C22_UninitLeavesPortPins == [][C22_Step]_vars

(***************************************************************************)
(* SpecSettle: the PORT path in both builds with an edge and a level       *)
(* trigger, where the handler of the pin being dispatched may disable that pin's    *)
(* trigger, and the pins change level at most MaxChanges times in all.     *)
(* obs.changes counts the level changes; obs.off is the set of pins whose  *)
(* handler disabled their trigger during the port_event_handle that is     *)
(* running.  The interrupt handler, once entered, keeps running: each of   *)
(* its steps is taken if it stays possible, and the user's handler returns.*)
(***************************************************************************)
SettleObserver ==
    obs' = [changes |-> IF ev'.kind = "level" THEN obs.changes + 1 ELSE obs.changes,
            off |-> IF ev'.kind = "disable" THEN obs.off \cup {ev'.pin}
                    ELSE IF ev'.kind = "return" THEN {}
                    ELSE obs.off]

InitSettle == InitPort /\ obs = [changes |-> 0, off |-> {}]

NextSettle ==
    \/ /\ \E pin \in Pins, trigger \in {NRFX_GPIOTE_TRIGGER_LOTOHI, NRFX_GPIOTE_TRIGGER_HIGH} :
              ConfigurePortPin(pin, trigger)
       /\ SettleObserver
    \/ Enable /\ SettleObserver
    \/ LET s1 == nrfx_gpiote_trigger_disable(S, irq.pin)
       IN  /\ irq.pc = "callback"
           /\ hw.sense[irq.pin] # "NOSENSE"
           /\ m_cb' = s1.cb
           /\ hw' = s1.hw
           /\ call' = Called("trigger_disable", irq.pin, Ok(s1))
           /\ ev' = Event("disable", irq.pin)
           /\ UNCHANGED <<irq, reg>>
           /\ SettleObserver
    \/ obs.changes < MaxChanges /\ PinChange /\ SettleObserver
    \/ IrqEnter /\ SettleObserver
    \/ PortStart /\ SettleObserver
    \/ ProcessPin /\ SettleObserver
    \/ CallbackReturn /\ SettleObserver
    \/ SweepDone /\ SettleObserver
    \/ ReadAndCheck /\ SettleObserver

SpecSettle ==
    /\ InitSettle
    /\ [][NextSettle]_vars
    /\ WF_vars(PortStart /\ SettleObserver)
    /\ WF_vars(ProcessPin /\ SettleObserver)
    /\ WF_vars(CallbackReturn /\ SettleObserver)
    /\ WF_vars(SweepDone /\ SettleObserver)
    /\ WF_vars(ReadAndCheck /\ SettleObserver)

(***************************************************************************)
(* C23: termination of port_event_handle.                                  *)
(***************************************************************************)
InPortHandle == irq.pc \in {"port", "sweep", "callback", "read"}

\* a level-triggered pin is armed and at the level of its trigger
LevelHeld ==
    \E p \in Pins : is_level(m_cb.pin_flags[get_pin_idx(p)].trigger) /\ PinDetect(hw, p)

\* port_event_handle returns from the loop's test, and only when the latches
\* read there are all clear (the inputs read there equal the snapshot)
C23_ExitStep ==
    (InPortHandle /\ ~InPortHandle') =>
        /\ irq.pc = "read"
        /\ IF hw.latch_present THEN latches_read(hw) = {}
           ELSE input_diff(irq.input, nrfy_gpio_ports_read(hw)) = {}

\* C23: if the pins stop changing level and from some moment on no
\* level-triggered pin is armed at its level, port_event_handle returns, in
\* both builds; it returns only from a test of the loop that finds nothing
\* left to process.
C23_Terminates ==
    /\ (<>[][ev'.kind # "level"]_vars /\ <>[]~LevelHeld) => []<>~InPortHandle
    /\ [][C23_ExitStep]_vars

\* the pins have made all their changes and port_event_handle has just
\* returned, in the build without LATCH, with a level-triggered pin armed and
\* away from its level
C23_Witness ==
    /\ ev.kind = "return" /\ ~InPortHandle
    /\ ~hw.latch_present
    /\ obs.changes = MaxChanges
    /\ obs.off = {}
    /\ \E p \in Pins :
          /\ is_level(m_cb.pin_flags[get_pin_idx(p)].trigger)
          /\ hw.sense[p] # "NOSENSE" /\ ~PinDetect(hw, p)

\* the same in the LATCH build
C23_WitnessLatch ==
    /\ ev.kind = "return" /\ ~InPortHandle
    /\ hw.latch_present
    /\ obs.changes = MaxChanges
    /\ \E p \in Pins :
          /\ is_level(m_cb.pin_flags[get_pin_idx(p)].trigger)
          /\ hw.sense[p] # "NOSENSE" /\ ~PinDetect(hw, p)

(***************************************************************************)
(* SpecArm: pins on the PORT event with triggers of every kind, their      *)
(* triggers enabled and disabled by the application while the pins change  *)
(* level; the interrupt is not taken.                                      *)
(***************************************************************************)
NextArm ==
    \/ Configure /\ UNCHANGED obs
    \/ Enable /\ UNCHANGED obs
    \/ \E pin \in Pins :
          LET s1 == nrfx_gpiote_trigger_disable(S, pin)
          IN  /\ pin_has_trigger(m_cb, pin)
              /\ m_cb' = s1.cb
              /\ hw' = s1.hw
              /\ call' = Called("trigger_disable", pin, Ok(s1))
              /\ ev' = Event("disable", pin)
              /\ UNCHANGED <<irq, reg, obs>>
    \/ PinChange /\ UNCHANGED obs

SpecArm == InitSettle /\ [][NextArm]_vars

(***************************************************************************)
(* C24: the sense armed by trigger_enable and removed by trigger_disable.  *)
(***************************************************************************)
C24_Step ==
    LET p == ev'.pin
        trigger == m_cb.pin_flags[get_pin_idx(p)].trigger
    IN  /\ ev'.kind = "enable" =>
              /\ trigger = NRFX_GPIOTE_TRIGGER_HIGH => hw'.sense[p] = "HIGH"
              /\ trigger = NRFX_GPIOTE_TRIGGER_LOW => hw'.sense[p] = "LOW"
              /\ trigger \in EdgeTriggers =>
                     hw'.sense[p] = (IF hw.level[p] THEN "LOW" ELSE "HIGH")
              /\ \A q \in Pins \ {p} : hw'.sense[q] = hw.sense[q]
        /\ ev'.kind = "disable" =>
              /\ hw'.sense[p] = "NOSENSE"
              /\ \A q \in Pins \ {p} : hw'.sense[q] = hw.sense[q]

\* C24: trigger_enable on a software-sense pin arms sense high for trigger
\* HIGH and low for trigger LOW whatever the pin's level, and for an edge
\* trigger the opposite of the level read at the call; trigger_disable sets
\* the sense to none.
C24_InitialSense == [][C24_Step]_vars

\* a level-high trigger has just been enabled on a pin that is low, and the
\* other pin, high, holds an edge trigger armed low
C24_Witness ==
    /\ ev.kind = "enable"
    /\ m_cb.pin_flags[get_pin_idx(ev.pin)].trigger = NRFX_GPIOTE_TRIGGER_HIGH
    /\ ~hw.level[ev.pin] /\ hw.sense[ev.pin] = "HIGH"
    /\ \E q \in Pins \ {ev.pin} :
          /\ m_cb.pin_flags[get_pin_idx(q)].trigger \in EdgeTriggers
          /\ hw.level[q] /\ hw.sense[q] = "LOW"

\* a trigger has just been disabled on a pin that was armed
C24_WitnessDisable ==
    /\ ev.kind = "disable" /\ call.op = "trigger_disable"
    /\ hw.sense[ev.pin] = "NOSENSE"
    /\ hw.port_event

(***************************************************************************)
(* C25: a call whose input block is applied and whose trigger block is     *)
(* refused.                                                                *)
(***************************************************************************)
C25_Partial ==
    \A p \in Pins, trigger \in LevelTriggers, ch \in Channels, hc \in LifeHandlerCfgs :
        ~pin_is_task_output(m_cb, p) =>
            \A r \in nrfx_gpiote_input_configure(
                         S, p, [present |-> TRUE],
                         [present |-> TRUE, trigger |-> trigger, ch |-> ch], hc) :
                /\ r.err = "NRFX_ERROR_INVALID_PARAM"
                /\ pin_in_use(r.s.cb, p) /\ pin_is_input(r.s.cb, p)
                /\ PIN_GET_HANDLER_ID(r.s.cb.pin_flags[p]) = PIN_GET_HANDLER_ID(m_cb.pin_flags[p])
                /\ r.s.cb.handlers = m_cb.handlers
                /\ r.s.cb.available_evt_handlers = m_cb.available_evt_handlers

\* C25: configure_input with input_opts that are accepted and a trigger block
\* asking for a level on a channel returns InvalidParam, leaves the pin in
\* use as an input, and applies nothing of the call's handler_opts.
C25_PartialApplication == []C25_Partial

\* such a call has just been refused on a pin that was unused: the pin is in
\* use, an input, and has no handler
C25_Witness ==
    /\ call.op = "input_configure" /\ call.err = "NRFX_ERROR_INVALID_PARAM"
    /\ call.fresh
    /\ pin_in_use(m_cb, call.pin) /\ pin_is_input(m_cb, call.pin)
    /\ ~HasHandler(call.pin)
    /\ m_cb.available_evt_handlers # {}

\* such a call has just been refused on a pin that had a handler: it has kept it
C25_WitnessKept ==
    /\ call.op = "input_configure" /\ call.err = "NRFX_ERROR_INVALID_PARAM"
    /\ pin_in_use(m_cb, call.pin) /\ pin_is_input(m_cb, call.pin)
    /\ HasHandler(call.pin)
    /\ m_cb.handlers[SlotOf(call.pin)] = reg[call.pin]

(***************************************************************************)
(* C26: the pin dispatched from a channel event.                           *)
(***************************************************************************)
\* gpiote_evt_handle dispatches the event of the channel it takes from its mask
C26_Step ==
    (irq.pc = "events" /\ ev'.kind = "channel") =>
        LET c == NRF_CTZ(irq.evt_mask)
            p == ev'.pin
        IN  /\ pin_in_use(m_cb, p) /\ pin_is_input(m_cb, p)
            /\ Bound(m_cb, p) /\ ChannelOf(m_cb, p) = c
            /\ m_cb.pin_flags[get_pin_idx(p)].trigger = ev'.trigger

\* C26: whenever the channel path dispatches an event of channel c for pin p,
\* the record of p is in use, an input, bound to c, and stores the dispatched
\* polarity as its trigger; a pin without a binding is never dispatched from
\* a channel.
C26_DispatchedPinIsBound == [][C26_Step]_vars

(***************************************************************************)
(* C27: a handler that disables the trigger of the pin it is called for.   *)
(* obs.off holds the pins whose trigger a handler has disabled since       *)
(* port_event_handle was entered.                                          *)
(***************************************************************************)
C27_Step ==
    \A p \in obs.off :
        /\ hw'.sense[p] = "NOSENSE"
        /\ ~(ev'.kind = "process" /\ ev'.pin = p /\ ev'.dispatched)

\* C27: once the handler called for a pin has disabled that pin's trigger,
\* every later step of port_event_handle, its return included, leaves the
\* pin's sense at none and calls no handler for the pin.
C27_DisabledInHandlerStaysOff == [][C27_Step]_vars

\* the handler of a level-triggered pin has disabled the pin and returned
\* while the pin is at the level of its trigger
C27_Witness ==
    /\ ev.kind = "handled" /\ ev.pin \in obs.off
    /\ LET trigger == m_cb.pin_flags[get_pin_idx(ev.pin)].trigger
       IN  /\ is_level(trigger)
           /\ hw.level[ev.pin] = (trigger = NRFX_GPIOTE_TRIGGER_HIGH)

\* the same for an edge-triggered pin, a later pass of the loop under way
C27_WitnessEdge ==
    /\ ev.kind = "pass"
    /\ \E p \in obs.off :
          m_cb.pin_flags[get_pin_idx(p)].trigger = NRFX_GPIOTE_TRIGGER_LOTOHI

\* port_event_handle has just returned with a pin disabled by its handler
C27_WitnessReturn ==
    /\ ev.kind = "return" /\ ~InPortHandle
    /\ \E p \in Pins :
          /\ m_cb.pin_flags[get_pin_idx(p)].trigger # NRFX_GPIOTE_TRIGGER_NONE
          /\ hw.sense[p] = "NOSENSE" /\ hw.level[p]
          /\ call.op = "trigger_disable" /\ call.pin = p

(***************************************************************************)
(* C29: a rejected call with the trigger block only.                       *)
(***************************************************************************)
C29_Kept ==
    m_cb.state = "INITIALIZED" =>
        \A pin \in Pins, tc \in PinTriggerCfgs :
            \A r \in nrfx_gpiote_input_configure(S, pin, NoInput, tc, NoHandlerOpt) :
                r.err = "NRFX_ERROR_INVALID_PARAM" =>
                    r.s.cb.pin_flags[get_pin_idx(pin)] = m_cb.pin_flags[get_pin_idx(pin)]

\* C29: nrfx_gpiote_input_configure called with the trigger block only and
\* returning NRFX_ERROR_INVALID_PARAM leaves the pin's record as it was; an
\* input pin bound to an event channel keeps the binding and its trigger.
C29_RejectedTriggerKeepsRecord == []C29_Kept

(***************************************************************************)
(* C30: a registration that fails for want of a slot.                      *)
(***************************************************************************)
\* the handler binding of pin p in control block cb
HandlerBinding(cb, p) ==
    [present |-> cb.pin_flags[get_pin_idx(p)].handler_present,
     id |-> cb.pin_flags[get_pin_idx(p)].handler_id]

C30_Kept ==
    \A pin \in Pins, hc \in {h \in LifeHandlerCfgs : h.present} :
        \A r \in nrfx_gpiote_input_configure(S, pin, NoInput, NoTrigger, hc) :
            r.err = "NRFX_ERROR_NO_MEM" =>
                /\ \A p \in Pins : HandlerBinding(r.s.cb, p) = HandlerBinding(m_cb, p)
                /\ r.s.cb.handlers = m_cb.handlers
                /\ r.s.cb.available_evt_handlers = m_cb.available_evt_handlers

\* C30: an nrfx_gpiote_input_configure whose handler registration fails with
\* NRFX_ERROR_NO_MEM leaves the pin referencing the slot it referenced before,
\* that slot storing its pair, the handler bindings of all other pins and
\* the pool of handler slots as they were.
C30_ExhaustedKeepsBinding == []C30_Kept

(***************************************************************************)
(* SpecPreempt: handler registration, clearing and pin teardown one memory *)
(* write at a time, the interrupt free to run between any two writes.      *)
(* obs is the configuration call in progress: obs.pc is "none" (no call),  *)
(* "release" (release_handler entered), "in_use" (line 336 written),       *)
(* "free" (line 343 written), "set" (release_handler has returned to       *)
(* pin_handler_set), "w_handler", "w_context", "w_flag" (about to write    *)
(* line 426, 427, 428), "zero" (release_handler has returned to            *)
(* pin_handler_trigger_uninit); obs.id is the call's handler_id.  reg[p]   *)
(* is the pair of p's latest registration while p references a slot.       *)
(***************************************************************************)
NoConfigCall ==
    [pc |-> "none", op |-> "none", pin |-> 0, handler |-> NULL, p_context |-> 0, id |-> 0]

Returned(op, pin, err, assert_failed) ==
    [op |-> op, pin |-> pin, err |-> err, assert_failed |-> assert_failed, fresh |-> FALSE]

InitPreempt ==
    /\ m_cb = InitCb
    /\ hw = InitHw(FALSE)
    /\ irq = IrqIdle
    /\ call = Returned("reset", 0, "NRFX_SUCCESS", FALSE)
    /\ reg = [p \in Pins |-> NoHandlerCfg]
    /\ ev = NoEvent
    /\ obs = NoConfigCall

\* nrfx_gpiote_input_configure with a handler block, up to the call of
\* release_handler from pin_handler_set
BeginHandlerSet ==
    \E pin \in Pins, ic \in InputCfgs,
       hc \in [present : {TRUE}, handler : {NULL, 1}, p_context : Contexts] :
        LET r1 == input_configure_input(S, pin, ic)
        IN  /\ obs.pc = "none"
            /\ m_cb.state = "INITIALIZED"
            /\ m_cb' = r1.s.cb
            /\ hw' = r1.s.hw
            /\ obs' = [pc |-> "release", op |-> "input_configure", pin |-> pin,
                       handler |-> hc.handler, p_context |-> hc.p_context, id |-> 0]
            /\ UNCHANGED <<irq, call, reg, ev>>

\* nrfx_gpiote_pin_uninit up to the call of release_handler from
\* pin_handler_trigger_uninit
BeginPinUninit ==
    \E pin \in Pins :
        LET s1 == nrfx_gpiote_trigger_disable(S, pin)
            s2 == IF pin_in_use_by_te(s1.cb, pin)
                  THEN [s1 EXCEPT !.hw = nrfy_gpiote_te_default(s1.hw, pin_te_get(s1.cb, pin))]
                  ELSE IF s1.hw.latch_present THEN s1
                  ELSE [s1 EXCEPT !.cb.port_pins = @ \ {pin}]
        IN  /\ obs.pc = "none"
            /\ m_cb.state = "INITIALIZED"
            /\ IF pin_in_use(m_cb, pin)
               THEN /\ m_cb' = s2.cb
                    /\ hw' = s2.hw
                    /\ obs' = [NoConfigCall EXCEPT !.pc = "release", !.op = "pin_uninit",
                                                   !.pin = pin]
                    /\ call' = call
               ELSE /\ call' = Returned("pin_uninit", pin, "NRFX_ERROR_INVALID_PARAM", FALSE)
                    /\ UNCHANGED <<m_cb, hw, obs>>
            /\ UNCHANGED <<irq, reg, ev>>

\* release_handler, one write at a time
ReleaseStep ==
    LET idx == get_pin_idx(obs.pin)
        handler_id == PIN_GET_HANDLER_ID(m_cb.pin_flags[idx])
        fr == nrfx_flag32_free(m_cb.available_evt_handlers, obs.id)
        back == IF obs.op = "pin_uninit" THEN "zero" ELSE "set"
    IN  /\ \/ /\ obs.pc = "release"
              /\ IF handler_id = PIN_FLAG_NO_HANDLER
                 THEN /\ obs' = [obs EXCEPT !.pc = back]
                      /\ UNCHANGED <<m_cb, reg>>
                 ELSE /\ m_cb' = [m_cb EXCEPT !.pin_flags[idx].handler_present = FALSE,
                                              !.pin_flags[idx].handler_id = 0]
                      /\ reg' = [reg EXCEPT ![obs.pin] = NoHandlerCfg]
                      /\ obs' = [obs EXCEPT !.pc = "in_use", !.id = handler_id]
              /\ call' = call
           \/ /\ obs.pc = "in_use"
              /\ IF handler_in_use(m_cb, obs.id)
                 THEN /\ obs' = [obs EXCEPT !.pc = back]
                      /\ m_cb' = m_cb
                 ELSE /\ m_cb' = [m_cb EXCEPT !.handlers[obs.id].handler = NULL]
                      /\ obs' = [obs EXCEPT !.pc = "free"]
              /\ UNCHANGED <<call, reg>>
           \/ /\ obs.pc = "free"
              /\ m_cb' = [m_cb EXCEPT !.available_evt_handlers = fr.mask]
              /\ call' = [call EXCEPT !.assert_failed = fr.err # "NRFX_SUCCESS"]
              /\ obs' = [obs EXCEPT !.pc = back]
              /\ reg' = reg
        /\ UNCHANGED <<hw, irq, ev>>

\* the rest of pin_handler_set, and of pin_handler_trigger_uninit and
\* nrfx_gpiote_pin_uninit, one write at a time
SetStep ==
    LET idx == get_pin_idx(obs.pin)
        found == find_handler(m_cb, obs.handler, obs.p_context)
        success == Returned(obs.op, obs.pin, "NRFX_SUCCESS", FALSE)
    IN  \/ /\ obs.pc = "set"
           /\ IF obs.handler = NULL
              THEN /\ call' = success
                   /\ obs' = NoConfigCall
                   /\ m_cb' = m_cb
              ELSE IF found >= 0
              THEN /\ obs' = [obs EXCEPT !.pc = "w_handler", !.id = found]
                   /\ UNCHANGED <<m_cb, call>>
              ELSE \E a \in nrfx_flag32_alloc(m_cb.available_evt_handlers) :
                      IF a.err # "NRFX_SUCCESS"
                      THEN /\ call' = Returned(obs.op, obs.pin, a.err, FALSE)
                           /\ obs' = NoConfigCall
                           /\ m_cb' = m_cb
                      ELSE /\ m_cb' = [m_cb EXCEPT !.available_evt_handlers = a.mask]
                           /\ obs' = [obs EXCEPT !.pc = "w_handler", !.id = a.id]
                           /\ call' = call
           /\ UNCHANGED <<hw, irq, reg, ev>>
        \/ /\ obs.pc = "w_handler"
           /\ m_cb' = [m_cb EXCEPT !.handlers[obs.id].handler = obs.handler]
           /\ obs' = [obs EXCEPT !.pc = "w_context"]
           /\ UNCHANGED <<hw, irq, call, reg, ev>>
        \/ /\ obs.pc = "w_context"
           /\ m_cb' = [m_cb EXCEPT !.handlers[obs.id].p_context = obs.p_context]
           /\ obs' = [obs EXCEPT !.pc = "w_flag"]
           /\ UNCHANGED <<hw, irq, call, reg, ev>>
        \/ /\ obs.pc = "w_flag"
           /\ m_cb' = [m_cb EXCEPT !.pin_flags[idx].handler_present = TRUE,
                                   !.pin_flags[idx].handler_id = obs.id]
           /\ reg' = [reg EXCEPT ![obs.pin] =
                          [handler |-> obs.handler, p_context |-> obs.p_context]]
           /\ call' = success
           /\ obs' = NoConfigCall
           /\ UNCHANGED <<hw, irq, ev>>
        \/ /\ obs.pc = "zero"
           /\ m_cb' = [m_cb EXCEPT !.pin_flags[idx] = PIN_FLAG_NOT_USED]
           /\ hw' = nrfy_gpio_cfg_default(hw, obs.pin)
           /\ call' = success
           /\ obs' = NoConfigCall
           /\ UNCHANGED <<irq, reg, ev>>

\* the interrupt handler runs between two steps of a call and dispatches a pin
Dispatch ==
    \E pin \in Pins :
        /\ obs.pc # "none"
        /\ ev' = [kind |-> "dispatch", pin |-> pin,
                  trigger |-> m_cb.pin_flags[get_pin_idx(pin)].trigger,
                  sense |-> "NOSENSE", dispatched |-> TRUE,
                  calls |-> call_handler(m_cb, pin, m_cb.pin_flags[get_pin_idx(pin)].trigger)]
        /\ UNCHANGED <<m_cb, hw, irq, call, reg, obs>>

NextPreempt ==
    \/ obs.pc = "none" /\ DriverInit
    \/ obs.pc = "none" /\ DriverUninit
    \/ BeginHandlerSet
    \/ BeginPinUninit
    \/ ReleaseStep
    \/ SetStep
    \/ Dispatch

SpecPreempt == InitPreempt /\ [][NextPreempt]_vars

(***************************************************************************)
(* C28: the interrupt between two writes of a configuration call.          *)
(***************************************************************************)
C28_Consistent ==
    /\ \A p \in Pins :
          HasHandler(p) => /\ m_cb.handlers[SlotOf(p)].handler # NULL
                           /\ m_cb.handlers[SlotOf(p)] = reg[p]
    /\ \A p \in Pins, trigger \in {NRFX_GPIOTE_TRIGGER_LOTOHI} :
          HasHandler(p) =>
              call_handler(m_cb, p, trigger) =
                  <<[handler |-> reg[p].handler, pin |-> p, trigger |-> trigger,
                     p_context |-> reg[p].p_context]>>

\* C28: at every point of a handler registration, a handler clearing or a
\* pin_uninit, between any two of its writes, each pin whose record
\* references a handler slot finds there a non-null callback and the context
\* registered with it, and a dispatch of the pin calls exactly that pair.
C28_PreemptedDispatchConsistent == []C28_Consistent

=============================================================================
